---- MODULE Spec2Model ----
(***************************************************************************)
(* Destiny 2 integration: the data update coordinator                      *)
(* (custom_components/destiny2/coordinator.py), the entry setup            *)
(* (__init__.py) and the token lifecycle they implement.                   *)
(*                                                                         *)
(* Time is counted in whole seconds since a Monday 00:00:00 UTC, so that   *)
(* datetime.weekday() is (t \div Day) % 7 with Monday = 0.                 *)
(* Python dicts are functions whose DOMAIN is the set of keys present.     *)
(***************************************************************************)
EXTENDS Integers, Sequences, FiniteSets, TLC

\* ------------------------------------------------------------ bounds
MaxTicks == 2        \* clock steps of TickStep seconds the model follows
MaxToken == 1        \* distinct token strings the token endpoint hands out
MaxRestarts == 1     \* restarts / reloads of the config entry
MaxItems == 1        \* items in a profile inventory response
MaxDay == 13         \* days of instants the reset functions are tried on
MaxHash == 1         \* distinct hash ids the definitions are looked up by
MaxLookups == 2      \* requests per key the definition endpoint is followed for
MaxMilestones == 2   \* milestones in a milestones response that is decoded in full
MaxCharacters == 2   \* characters in a characters response that is decoded in full
MaxCallers == 2      \* coroutines that call the resolver at the same time
MaxFlows == 2        \* config flows the host starts

\* ------------------------------------------------------- program constants
None == -1                    \* Python None (no token is negative)
Lookahead == 300              \* timedelta(minutes=5)
DefaultExpiresIn == 3600      \* token_data.get("expires_in", 3600)
Hour == 60 * 60               \* seconds in timedelta(hours=1)
Day == 24 * Hour              \* seconds in timedelta(days=1)
ResetHour == 17               \* replace(hour=17, minute=0, second=0, ...)
Tuesday == 1                  \* days_ahead = 1 - now.weekday()
BUCKET_POSTMASTER == 215593132  \* const.py: the postmaster bucket hash
CRITICAL_COUNT == 18          \* if postmaster_count >= 18

\* ------------------------------------------------------------- helpers
\* dict.get(key, default)
Get(d, k, default) == IF k \in DOMAIN d THEN d[k] ELSE default

\* {**d, **u}: the keys of u replace or extend those of d
Merge(d, u) == [k \in DOMAIN d \cup DOMAIN u |-> IF k \in DOMAIN u THEN u[k] ELSE d[k]]

\* every dict whose keys are a subset of DOMAIN vals, key k taking values in vals[k]
Dicts(vals) ==
  UNION { { f \in [K -> UNION {vals[k] : k \in K}] : \A k \in K : f[k] \in vals[k] }
          : K \in SUBSET DOMAIN vals }

EmptyDict == [k \in {} |-> None]

\* ---------------------------------------------------------------- state
VARIABLES
  now,            \* datetime.now(timezone.utc), seconds since a Monday 00:00 UTC
  pc,             \* where the entry's setup / the running cycle stands
  caller,         \* who runs the token check: "setup", "first" (first refresh), "cycle"
  entry,          \* entry.data: the persisted config entry (the credential record)
  accessToken,    \* self._access_token
  refreshToken,   \* self._refresh_token
  tokenExpiresAt, \* self._token_expires_at
  tokenData,      \* token_data, between the response and async_update_entry
  data,           \* self.data: the published snapshot, None before the first one
  cur,            \* the data dict _async_update_data is building
  reqs,           \* requests sent since the cycle (or the setup) began, per endpoint
  tokenResp,      \* how the latest token check of this coordinator ended
  result,         \* how the latest cycle ended
  restarts,       \* restarts so far
  upstreamOK,     \* the upstream answers every request with a well-formed 200
  storedExpiry,   \* the instant the persisted access token really expires (issue + lifetime)
  seen,           \* the responses the cycle's fetches received, where they are observed
  cache,          \* self.manifest._cache: definition type -> hash string -> definition
  call,           \* the get_*_name call in progress, or the one that returned last
  lookups,        \* requests the manifest cache has sent to the definition endpoint
  resolved,       \* per key, the name returned when its definition was fetched and stored
  calls           \* per coroutine, its get_*_name call, where calls run concurrently

\* the config flow in progress (config_flow.py) and the callback view (callback.py)
VARIABLES
  flowId,         \* how many flows were started; the flow in progress is FlowIds[flowId]
  flowStep,       \* the step the flow stands at, "none" when no flow is in progress
  flowCode,       \* self._code, <<>> while it is None
  flowRedirect,   \* self._redirect_uri, <<>> while it is None
  flowTokenData,  \* token_data of async_step_token
  exchange,       \* how the authorization_code exchange of the flow went
  flowResult,     \* the result the latest step of a flow returned
  entries,        \* the config entries created, each with its unique id
  callbackStatus, \* the status of the latest response of the callback view
  via             \* who called async_configure for the running step

flowVars == <<flowId, flowStep, flowCode, flowRedirect, flowTokenData, exchange,
              flowResult, entries, callbackStatus, via>>

vars == <<now, pc, caller, entry, accessToken, refreshToken, tokenExpiresAt, tokenData,
          data, cur, reqs, tokenResp, result, restarts, upstreamOK, storedExpiry,
          seen, cache, call, lookups, resolved, calls, flowVars>>

tokenVars == <<accessToken, refreshToken, tokenExpiresAt, tokenData>>

\* the state of self.manifest and of the calls made to it
manifestVars == <<cache, call, lookups, resolved, calls>>

\* everything the coordinator holds apart from its manifest cache
coordinatorVars ==
  <<now, pc, caller, entry, tokenVars, data, cur, reqs, tokenResp, result, restarts,
    upstreamOK, storedExpiry, seen>>

\* the token strings the token endpoint hands out on a refresh
Tokens == 1..MaxToken

\* the token string the config flow stored, and every token string
LinkedToken == 0
AllTokens == {LinkedToken} \cup Tokens

\* the instant the model's clock starts at: a Tuesday, 16:55:00 UTC
StartInstant == Tuesday * Day + 16 * Hour + 55 * 60

\* the clock moves in steps of half the lookahead window
TickStep == Lookahead \div 2

\* lifetimes (seconds) the token endpoint may state: 3 minutes, 10 minutes
Lifetimes == {180, 600}

NoReqs == [token |-> 0, milestones |-> 0, vault |-> 0, characters |-> 0]

\* ------------------------------------------------- Destiny2Coordinator.__init__
\* the entries the config flow writes: every key present, tokens as issued
InitialEntries ==
  { [api_key |-> "key", client_id |-> "id", client_secret |-> "secret",
     access_token |-> LinkedToken, refresh_token |-> LinkedToken, expires_in |-> l,
     membership_id |-> 4611, membership_type |-> 3]
    : l \in Lifetimes }

\* self._token_expires_at as the constructor sets it at instant t
ConstructExpiresAt(e, t) ==
  IF "expires_in" \in DOMAIN e THEN t + e["expires_in"] ELSE None

\* the guard without the lookahead: refresh only once the token has expired
NeedsRefreshNoLookahead(t, expiresAt) ==
  /\ expiresAt # None
  /\ ~(t < expiresAt)

\* ------------------------------------- async_refresh_token_if_needed: the guard
\* the token check goes on to the token exchange request
NeedsRefresh(t, expiresAt) ==
  /\ expiresAt # None
  /\ ~(t + Lookahead < expiresAt)

\* ------------------------------------------------------ the reset computations
\* datetime.weekday(): Monday is 0
Weekday(t) == (t \div Day) % 7

\* t.replace(hour=17, minute=0, second=0, microsecond=0)
ReplaceResetHour(t) == (t \div Day) * Day + ResetHour * Hour

\* this week's Tuesday 17:00 is returned also when it is not after now
NextWeeklyResetNoAdvance(t) ==
  LET d0 == Tuesday - Weekday(t)
      days_ahead == IF d0 < 0 THEN d0 + 7 ELSE d0
  IN  ReplaceResetHour(t + days_ahead * Day)

\* _calculate_next_weekly_reset with now = t
NextWeeklyReset(t) ==
  LET d0 == Tuesday - Weekday(t)
      days_ahead == IF d0 <= 0 THEN d0 + 7 ELSE d0
      next_reset == ReplaceResetHour(t + days_ahead * Day)
  IN  IF next_reset <= t THEN next_reset + 7 * Day ELSE next_reset

\* the daily reset with "<" for "<=": at 17:00:00 sharp it returns now
NextDailyResetStrict(t) ==
  LET next_reset == ReplaceResetHour(t)
  IN  IF next_reset < t THEN next_reset + Day ELSE next_reset

\* _calculate_next_daily_reset with now = t
NextDailyReset(t) ==
  LET next_reset == ReplaceResetHour(t)
  IN  IF next_reset <= t THEN next_reset + Day ELSE next_reset

\* data["guardian"], read from the stored config
Guardian(e) ==
  [membership_id |-> Get(e, "membership_id", None),
   membership_type |-> Get(e, "membership_type", None)]

\* ------------------------------------------ what the token endpoint may answer
\* the JSON objects of a 200 response: each key may be missing
TokenPayloads ==
  Dicts([access_token |-> Tokens, refresh_token |-> Tokens, expires_in |-> Lifetimes])

WellFormedTokenPayloads ==
  { p \in TokenPayloads : DOMAIN p = {"access_token", "refresh_token", "expires_in"} }

\* "status": a non-200 status; "client_error": aiohttp.ClientError;
\* "undecodable": response.json() raises; "ok": 200 and a JSON object
TokenResponses ==
  IF upstreamOK
  THEN { [kind |-> "ok", payload |-> p] : p \in WellFormedTokenPayloads }
  ELSE { [kind |-> "ok", payload |-> p] : p \in TokenPayloads }
       \cup { [kind |-> k, payload |-> EmptyDict] : k \in {"status", "client_error", "undecodable"} }

\* the outcome recorded for a 200 response
OkKind(p) == IF "access_token" \in DOMAIN p THEN "ok" ELSE "no_access_token"

\* ------------------------------------------------ async_refresh_token_if_needed
\* where control goes when the token check returns normally
AfterTokenCheck ==
  IF caller = "setup"
  THEN \* async_setup_entry goes on to async_config_entry_first_refresh
       /\ pc' = "token"
       /\ caller' = "first"
       /\ reqs' = NoReqs
       /\ result' = "running"
  ELSE /\ pc' = "resets"
       /\ UNCHANGED <<caller, reqs, result, flowVars>>

\* the failure is logged and swallowed: the caller goes on as after a success
TokenCheckRaisesContinues ==
  /\ pc' = "resets"
  /\ UNCHANGED <<caller, reqs, result, flowVars>>

\* the token check is tried again at once
TokenCheckRaisesRetries ==
  /\ pc' = IF caller = "setup" THEN "setup" ELSE "token"
  /\ UNCHANGED <<caller, reqs, result, flowVars>>

\* where control goes when the token check raises: setup and the first refresh
\* fail the entry's setup, a scheduled cycle ends with UpdateFailed
TokenCheckRaises ==
  /\ pc' = IF caller = "cycle" THEN "idle" ELSE "down"
  /\ result' = IF caller = "setup" THEN result ELSE "UpdateFailed"
  /\ UNCHANGED <<caller, reqs, flowVars>>

\* lines 59-79: the guard, and the request when it is needed
TokenCheck ==
  /\ pc \in {"setup", "token"}
  /\ IF NeedsRefresh(now, tokenExpiresAt)
     THEN /\ pc' = "token_wait"
          /\ reqs' = [reqs EXCEPT !.token = @ + 1]
          /\ UNCHANGED <<caller, result, tokenResp, flowVars>>
     ELSE /\ AfterTokenCheck
          /\ tokenResp' = "not_needed"
  /\ UNCHANGED <<now, entry, tokenVars, data, cur, restarts, upstreamOK, storedExpiry,
                 seen, manifestVars, flowVars>>

\* a rejected exchange drops the access token it could not renew
TokenRejectedClears(kind) ==
  /\ TokenCheckRaises
  /\ tokenResp' = "rejected"
  /\ accessToken' = None
  /\ UNCHANGED <<now, entry, refreshToken, tokenExpiresAt, tokenData, data, cur, restarts,
                 upstreamOK, storedExpiry,
                 seen, manifestVars, flowVars>>

\* a rejected exchange is final: the expiry is forgotten, no later check refreshes
TokenRejectedSticky(kind) ==
  /\ TokenCheckRaises
  /\ tokenResp' = IF kind = "undecodable" THEN "undecodable" ELSE "rejected"
  /\ tokenExpiresAt' = None
  /\ UNCHANGED <<now, entry, accessToken, refreshToken, tokenData, data, cur, restarts,
                 upstreamOK, storedExpiry,
                 seen, manifestVars, flowVars>>

\* lines 80-82 and 104-106: the exchange is rejected or fails
TokenRejected(kind) ==
  /\ TokenCheckRaises
  /\ tokenResp' = IF kind = "undecodable" THEN "undecodable" ELSE "rejected"
  /\ UNCHANGED <<now, entry, tokenVars, data, cur, restarts, upstreamOK, storedExpiry,
                 seen, manifestVars, flowVars>>

\* the new tokens are taken but the expiry is left as it was
TokenParsedKeepsExpiry(p) ==
  /\ accessToken' = Get(p, "access_token", None)
  /\ refreshToken' = Get(p, "refresh_token", refreshToken)
  /\ tokenData' = p
  /\ pc' = "token_persist"
  /\ tokenResp' = OkKind(p)
  /\ UNCHANGED <<now, caller, entry, tokenExpiresAt, data, cur, reqs, result, restarts,
                 upstreamOK, storedExpiry,
                 seen, manifestVars, flowVars>>

\* lines 84-91: the 200 response is parsed into the coordinator's fields
TokenParsed(p) ==
  /\ accessToken' = Get(p, "access_token", None)
  /\ refreshToken' = Get(p, "refresh_token", refreshToken)
  /\ tokenExpiresAt' = now + Get(p, "expires_in", DefaultExpiresIn)
  /\ tokenData' = p
  /\ pc' = "token_persist"
  /\ tokenResp' = OkKind(p)
  /\ UNCHANGED <<now, caller, entry, data, cur, reqs, result, restarts, upstreamOK,
                 storedExpiry,
                 seen, manifestVars, flowVars>>

TokenResponse ==
  /\ pc = "token_wait"
  /\ \E r \in TokenResponses :
       IF r.kind = "ok" THEN TokenParsed(r.payload) ELSE TokenRejected(r.kind)

\* the entry data without **self.entry.data: the token fields alone
UpdatedEntryDataTokensOnly(e, access, refresh, td) ==
  [access_token |-> access,
   refresh_token |-> refresh,
   expires_in |-> Get(td, "expires_in", DefaultExpiresIn)]

\* lines 94-102: the data handed to async_update_entry
UpdatedEntryData(e, access, refresh, td) ==
  Merge(e, [access_token |-> access,
            refresh_token |-> refresh,
            expires_in |-> Get(td, "expires_in", DefaultExpiresIn)])

TokenPersist ==
  /\ pc = "token_persist"
  /\ entry' = UpdatedEntryData(entry, accessToken, refreshToken, tokenData)
  /\ storedExpiry' = tokenExpiresAt
  /\ tokenData' = EmptyDict
  /\ AfterTokenCheck
  /\ UNCHANGED <<now, accessToken, refreshToken, tokenExpiresAt, data, cur, tokenResp,
                 restarts, upstreamOK,
                 seen, manifestVars, flowVars>>

\* --------------------------------------------- what the resource endpoints answer
\* a value standing for "no dict": self.data before the first snapshot (None),
\* and a characters field of None; every real snapshot and roster has keys
NoDict == EmptyDict

SeasonEnd == StartInstant + 30 * Day

\* the milestones of a response, in the order of the JSON object; each is its
\* milestone_data, with the name get_milestone_name resolves its hash to under
\* "name" and, for an activity that has an activityHash, the name
\* get_activity_name resolves it to under "activityHash"
Milestones ==
  { [name |-> "Vault of Glass", endDate |-> SeasonEnd], [name |-> "Nightfall"] }

\* the names the resolver gives the milestones and the activities of the responses
MilestoneNames == {"Vault of Glass", "The PROPHECY", "Last Wish: Prophecy", "Nightfall"}
ResolvedActivityNames ==
  {"Vault of Glass", "Vault of Glass: Master", "Grandmaster Nightfall"}

MilestonePayloads ==
  {EmptyDict} \cup { [Response |-> ms] : ms \in {<<>>} \cup { <<m>> : m \in Milestones } }

ItemLists == UNION { [1..n -> {"item"}] : n \in 0..MaxItems }

\* the JSON value of the "items" member: null, or an array
JsonNull == [json |-> "null"]
JsonArray(l) == [json |-> "array", elems |-> l]
ItemValues == {JsonNull} \cup { JsonArray(l) : l \in ItemLists }

\* Python truth of such a value: None and the empty list are false
Truthy(v) == v.json = "array" /\ v.elems # <<>>

VaultPayloads ==
  { EmptyDict,
    [Response |-> EmptyDict],
    [Response |-> [profileInventory |-> EmptyDict]],
    [Response |-> [profileInventory |-> [data |-> EmptyDict]]] }
  \cup { [Response |-> [profileInventory |-> [data |-> [items |-> v]]]] : v \in ItemValues }

\* instants a character was last played at
PlayedEarlier == StartInstant - Day
PlayedLater == StartInstant - Hour

\* characters.data in the order of the JSON object: each char_info with its key
\* (the character id, by its position in the response) under "character_id"
CharacterPayloads ==
  {EmptyDict}
  \cup { [Response |-> [characters |-> [data |-> cs]]]
         : cs \in { <<[character_id |-> 1, dateLastPlayed |-> PlayedLater]>> } }

\* "status500", "status_other": the status; "client_error": aiohttp.ClientError;
\* "undecodable": response.json() raises ValueError; "ok": 200 and a JSON object
FetchResponses(payloads, wellFormed) ==
  IF upstreamOK
  THEN { [kind |-> "ok", payload |-> p] : p \in wellFormed }
  ELSE { [kind |-> "ok", payload |-> p] : p \in payloads }
       \cup { [kind |-> k, payload |-> EmptyDict]
              : k \in {"status500", "status_other", "client_error", "undecodable"} }

\* no response received (yet) in this cycle
NoResponse == [kind |-> "none", payload |-> EmptyDict]

\* what is remembered of a snapshot that a later one has replaced: that there was
\* one, and whether its vault count and its characters were other than None
NoSnapshot == [published |-> FALSE, vault |-> FALSE, characters |-> FALSE]
Remembered(snapshot) ==
  IF snapshot = EmptyDict THEN NoSnapshot
  ELSE [published |-> TRUE,
        vault |-> snapshot["vault_count"] # None,
        characters |-> snapshot["characters"] # EmptyDict]

\* "replaced": the snapshot the latest published one replaced; "older": the
\* snapshots before that one, taken together
NoSeen == [milestones |-> NoResponse, vault |-> NoResponse, characters |-> NoResponse,
           replaced |-> NoSnapshot, older |-> NoSnapshot]

\* seen after the characters response r, which may have made the cycle publish
SeenAfterCharacters(s, r, previous, publishes) ==
  IF publishes
  THEN [s EXCEPT !.characters = r,
                 !.replaced = Remembered(previous),
                 !.older = [published |-> s.older.published \/ s.replaced.published,
                            vault |-> s.older.vault \/ s.replaced.vault,
                            characters |-> s.older.characters \/ s.replaced.characters]]
  ELSE [s EXCEPT !.characters = r]

\* ------------------------------------------------------------ _fetch_milestones
EmptyMilestones ==
  [season_end |-> None, rotators |-> [raids |-> <<>>, dungeons |-> <<>>, other |-> <<>>]]

\* str.lower(), on the ASCII letters
UpperLetters == "ABCDEFGHIJKLMNOPQRSTUVWXYZ"
LowerLetters == "abcdefghijklmnopqrstuvwxyz"

LowerChar(c) ==
  IF \E i \in 1..Len(UpperLetters) : SubSeq(UpperLetters, i, i) = c
  THEN LET i == CHOOSE j \in 1..Len(UpperLetters) : SubSeq(UpperLetters, j, j) = c
       IN  SubSeq(LowerLetters, i, i)
  ELSE c

RECURSIVE LowerFrom(_, _)
LowerFrom(s, i) ==
  IF i > Len(s) THEN "" ELSE LowerChar(SubSeq(s, i, i)) \o LowerFrom(s, i + 1)

\* the name is compared as it is written
LowerUnchanged(s) == s

\* line 222: milestone_name.lower()
Lower(s) == LowerFrom(s, 1)

\* kw in s: kw is a substring of s
Contains(s, kw) ==
  \E i \in 1..(Len(s) - Len(kw) + 1) : SubSeq(s, i, i + Len(kw) - 1) = kw

\* lines 225-235
raid_keywords ==
  { "last wish", "garden of salvation", "deep stone crypt", "vault of glass",
    "vow of the disciple", "king's fall", "root of nightmares", "crota's end",
    "salvation's edge" }

\* lines 238-249
dungeon_keywords ==
  { "shattered throne", "pit of heresy", "prophecy", "grasp of avarice", "duality",
    "spire of the watcher", "ghosts of the deep", "warlord's ruin", "vesper's host",
    "desert perpetual" }

\* lines 202-203: milestone_data["activities"], none when the key is missing
Activities(m) == Get(m, "activities", <<>>)

\* the activities that have an activityHash, by their resolved names
ActivityNames(m) ==
  LET named == SelectSeq(Activities(m), LAMBDA a : "activityHash" \in DOMAIN a)
  IN  [i \in 1..Len(named) |-> named[i]["activityHash"]]

\* every named activity overwrites activity_name: the last one stays
ActivityNameLast(m) ==
  IF ActivityNames(m) = <<>> THEN <<>> ELSE <<ActivityNames(m)[Len(ActivityNames(m))]>>

\* lines 200-207: activity_name, <<>> for None and <<name>> for a name
ActivityName(m) ==
  IF ActivityNames(m) = <<>> THEN <<>> ELSE <<Head(ActivityNames(m))>>

\* line 208, evaluated once for every name: "Master" in act_name
MasterNamed == { n \in ResolvedActivityNames : Contains(n, "Master") }

\* only the first activity is looked at
HasMasterFirstOnly(m) ==
  ActivityNames(m) # <<>> /\ Head(ActivityNames(m)) \in MasterNamed

\* lines 201-209: has_master
HasMaster(m) ==
  \E i \in 1..Len(ActivityNames(m)) : ActivityNames(m)[i] \in MasterNamed

\* line 211: end_date_str
EndDate(m) == Get(m, "endDate", None)

\* lines 251-256
Entry(m) ==
  [name |-> m.name, activity |-> ActivityName(m), has_master |-> HasMaster(m),
   end_date |-> EndDate(m)]

\* lines 222, 258 and 260, evaluated once for every name:
\* any(kw in name_lower for kw in ...)
RaidNamed ==
  { n \in MilestoneNames : \E kw \in raid_keywords : Contains(Lower(n), kw) }
DungeonNamed ==
  { n \in MilestoneNames : \E kw \in dungeon_keywords : Contains(Lower(n), kw) }

MatchesRaid(m) == m.name \in RaidNamed
MatchesDungeon(m) == m.name \in DungeonNamed

\* lines 258-259
InRaids(m) == MatchesRaid(m)

\* an "if" where the code has "elif": the raid test is not consulted
InDungeonsIndependent(m) == MatchesDungeon(m)

\* lines 260-261
InDungeons(m) == ~MatchesRaid(m) /\ MatchesDungeon(m)

\* lines 262-263
InOther(m) ==
  /\ ~MatchesRaid(m) /\ ~MatchesDungeon(m)
  /\ ActivityName(m) # <<>> /\ EndDate(m) # None

\* the entries appended to one bucket, in the order of the response
Bucket(ms, b) ==
  LET In(m) == CASE b = "raids" -> InRaids(m)
                 [] b = "dungeons" -> InDungeons(m)
                 [] b = "other" -> InOther(m)
      chosen == SelectSeq(ms, In)
  IN  [i \in 1..Len(chosen) |-> Entry(chosen[i])]

\* the latest end date among the milestones that went to a bucket
LatestEndDateBucketed(ms) ==
  LET ends == { EndDate(ms[i]) : i \in { j \in DOMAIN ms :
                    InRaids(ms[j]) \/ InDungeons(ms[j]) \/ InOther(ms[j]) } } \ {None}
  IN  IF ends = {} THEN None ELSE CHOOSE e \in ends : \A f \in ends : f <= e

\* lines 192 and 265-272: latest_end_date after the loop
LatestEndDate(ms) ==
  LET ends == { EndDate(ms[i]) : i \in DOMAIN ms } \ {None}
  IN  IF ends = {} THEN None ELSE CHOOSE e \in ends : \A f \in ends : f <= e

\* lines 186-284: the decoded result of a 200 response
DecodeMilestones(p) ==
  IF "Response" \notin DOMAIN p THEN EmptyMilestones
  ELSE LET ms == p["Response"]
       IN  [season_end |-> LatestEndDate(ms),
            rotators |-> [raids |-> Bucket(ms, "raids"),
                          dungeons |-> Bucket(ms, "dungeons"),
                          other |-> Bucket(ms, "other")]]

\* lines 174-288: what _fetch_milestones returns for a response that does not raise
MilestonesResult(r) ==
  IF r.kind = "ok" THEN DecodeMilestones(r.payload) ELSE EmptyMilestones

\* a non-200 status raises as well
MilestonesRaisesOnStatus(r) == r.kind \in {"undecodable", "status500", "status_other"}

\* lines 176-196 and 286-288: the responses on which _fetch_milestones raises; only
\* aiohttp.ClientError is caught, the ValueError of response.json() is not
MilestonesRaises(r) == r.kind = "undecodable"

\* ----------------------------------------------------------- _fetch_vault_count
\* a missing "items" member counts as an empty vault
DecodeVaultAbsentZero(p) ==
  IF /\ "Response" \in DOMAIN p
     /\ "profileInventory" \in DOMAIN p["Response"]
     /\ "data" \in DOMAIN p["Response"]["profileInventory"]
  THEN LET d == p["Response"]["profileInventory"]["data"]
       IN  IF "items" \in DOMAIN d /\ Truthy(d["items"]) THEN Len(d["items"].elems) ELSE 0
  ELSE None

\* lines 323-332: the count of a 200 response
DecodeVault(p) ==
  IF /\ "Response" \in DOMAIN p
     /\ "profileInventory" \in DOMAIN p["Response"]
     /\ "data" \in DOMAIN p["Response"]["profileInventory"]
     /\ "items" \in DOMAIN p["Response"]["profileInventory"]["data"]
  THEN LET items == p["Response"]["profileInventory"]["data"]["items"]
       IN  IF Truthy(items) THEN Len(items.elems) ELSE 0
  ELSE None

\* after a 500 a count of 0 stands in where the previous snapshot has none
VaultResultDefaultsZero(r, prev) ==
  CASE r.kind = "status500" ->
         IF prev # NoDict /\ Get(prev, "vault_count", None) # None
         THEN prev["vault_count"] ELSE 0
    [] r.kind = "ok" -> DecodeVault(r.payload)
    [] OTHER -> None

\* a 500 is handled like every other non-200 status
VaultResultForgets(r, prev) ==
  CASE r.kind = "ok" -> DecodeVault(r.payload)
    [] OTHER -> None

\* lines 309-336: what _fetch_vault_count returns for a response that does not raise
VaultResult(r, prev) ==
  CASE r.kind = "status500" -> IF prev # NoDict THEN Get(prev, "vault_count", None) ELSE None
    [] r.kind = "ok" -> DecodeVault(r.payload)
    [] OTHER -> None

\* a non-200 status raises as well
VaultRaisesOnStatus(r) == r.kind \in {"undecodable", "status500", "status_other"}

\* lines 299-336: the responses on which _fetch_vault_count raises
VaultRaises(r) == r.kind = "undecodable"

\* ------------------------------------------------------------ _fetch_characters
\* lines 379-380: response_data.get(member, {}).get("data", {})
ComponentData(response_data, member, default) ==
  Get(Get(response_data, member, EmptyDict), "data", default)

\* every item of the inventory is counted, whatever its bucket
PostmasterCountAllItems(char_id, inventories_data) ==
  IF char_id \in DOMAIN inventories_data
  THEN Len(Get(inventories_data[char_id], "items", <<>>))
  ELSE 0

\* lines 394-399: postmaster_count of the character char_id
PostmasterCount(char_id, inventories_data) ==
  IF char_id \in DOMAIN inventories_data
  THEN LET items == Get(inventories_data[char_id], "items", <<>>)
       IN  Cardinality({ i \in DOMAIN items :
                           Get(items[i], "bucketHash", None) = BUCKET_POSTMASTER })
  ELSE 0

\* lines 405-430: the roster entry of a character (of its fields, those the
\* response decides: the id, the last-played instant and the postmaster count)
RosterEntry(char_info, inventories_data) ==
  [character_id |-> char_info["character_id"],
   last_played |-> Get(char_info, "dateLastPlayed", None),
   postmaster_count |-> PostmasterCount(char_info["character_id"], inventories_data)]

\* line 434: c.get("last_played") or "", the empty string below every timestamp
SortKey(c) == IF c["last_played"] = None THEN 0 ELSE c["last_played"]

\* list.sort(reverse=True) is stable: x, which comes before the sorted rest in
\* the input, goes before the entries whose key is not greater than its own
RECURSIVE InsertDescending(_, _)
InsertDescending(x, rest) ==
  IF rest = <<>> THEN <<x>>
  ELSE IF SortKey(Head(rest)) > SortKey(x)
       THEN <<Head(rest)>> \o InsertDescending(x, Tail(rest))
       ELSE <<x>> \o rest

RECURSIVE SortDescending(_)
SortDescending(roster) ==
  IF roster = <<>> THEN <<>>
  ELSE InsertDescending(Head(roster), SortDescending(Tail(roster)))

Reverse(q) == [i \in 1..Len(q) |-> q[Len(q) + 1 - i]]

\* sorted ascending and then reversed: equal timestamps come out in reverse order
SortAscendingReversed(roster) == SortDescending(Reverse(roster))

\* lines 433-435: characters.sort(key=..., reverse=True)
SortByLastPlayed(roster) == SortDescending(roster)

\* lines 383 and 401-403: postmaster_critical after the loop
PostmasterCritical(roster) ==
  \E i \in DOMAIN roster : roster[i]["postmaster_count"] >= CRITICAL_COUNT

\* lines 372-445: the roster of a 200 response
DecodeCharacters(p) ==
  IF "Response" \notin DOMAIN p THEN NoDict
  ELSE LET characters_data == ComponentData(p["Response"], "characters", <<>>)
           inventories_data == ComponentData(p["Response"], "characterInventories", EmptyDict)
           characters == [i \in 1..Len(characters_data) |->
                            RosterEntry(characters_data[i], inventories_data)]
       IN  [count |-> Len(characters),
            characters |-> SortByLastPlayed(characters),
            postmaster_critical |-> PostmasterCritical(characters)]

\* a 500 is handled like every other non-200 status
CharactersResultForgets(r, prev) ==
  CASE r.kind = "ok" -> DecodeCharacters(r.payload)
    [] OTHER -> NoDict

\* lines 358-449: what _fetch_characters returns for a response that does not raise
CharactersResult(r, prev) ==
  CASE r.kind = "status500" -> IF prev # NoDict THEN Get(prev, "characters", NoDict) ELSE NoDict
    [] r.kind = "ok" -> DecodeCharacters(r.payload)
    [] OTHER -> NoDict

\* aiohttp.ClientError is not caught in the fetch
CharactersRaisesOnTransport(r) == r.kind \in {"undecodable", "client_error"}

\* lines 347-449: the responses on which _fetch_characters raises
CharactersRaises(r) == r.kind = "undecodable"

\* ---------------------------------------------------------- _async_update_data
\* the scheduler starts a cycle: _async_update_data begins with the token check
StartCycle ==
  /\ pc = "idle"
  /\ pc' = "token"
  /\ caller' = "cycle"
  /\ reqs' = NoReqs
  /\ result' = "running"
  /\ cur' = EmptyDict
  /\ seen' = [NoSeen EXCEPT !.replaced = seen.replaced, !.older = seen.older]
  /\ UNCHANGED <<now, entry, tokenVars, data, tokenResp, restarts, upstreamOK, storedExpiry,
                 manifestVars, flowVars>>

\* lines 112-126: the fields computed locally
ComputeResets ==
  /\ pc = "resets"
  /\ cur' = [weekly_reset |-> NextWeeklyReset(now),
             daily_reset |-> NextDailyReset(now),
             guardian |-> Guardian(entry)]
  /\ pc' = "milestones"
  /\ UNCHANGED <<now, caller, entry, tokenVars, data, reqs, tokenResp, result, restarts,
                 upstreamOK, storedExpiry, seen, manifestVars, flowVars>>

\* what the cycle had assembled when the fetch raised becomes the snapshot
CycleRaisesKeepsPartial ==
  /\ pc' = IF caller = "cycle" THEN "idle" ELSE "down"
  /\ result' = "UpdateFailed"
  /\ cur' = EmptyDict
  /\ data' = cur
  /\ UNCHANGED <<caller, flowVars>>

\* lines 136-138: a fetch raised; UpdateFailed leaves self.data as it was, and
\* fails the entry's setup when this is the first refresh
CycleRaises ==
  /\ pc' = IF caller = "cycle" THEN "idle" ELSE "down"
  /\ result' = "UpdateFailed"
  /\ cur' = EmptyDict
  /\ UNCHANGED <<data, caller, flowVars>>

\* lines 130-132, for the response r
MilestonesStep(r) ==
  /\ pc = "milestones"
  /\ reqs' = [reqs EXCEPT !.milestones = @ + 1]
  /\ IF MilestonesRaises(r)
     THEN CycleRaises
     ELSE /\ cur' = Merge(cur, MilestonesResult(r))
          /\ pc' = "vault"
          /\ UNCHANGED <<data, caller, result, flowVars>>
  /\ UNCHANGED <<now, entry, tokenVars, tokenResp, restarts, upstreamOK, storedExpiry,
                 manifestVars, flowVars>>

MilestoneResponses == FetchResponses(MilestonePayloads, MilestonePayloads \ {EmptyDict})

FetchMilestones ==
  /\ \E r \in MilestoneResponses : MilestonesStep(r)
  /\ UNCHANGED <<seen, flowVars>>

\* a status other than 200 and 500 (a 401, say) makes the fetch drop the access token
VaultStepDropsToken(r) ==
  /\ pc = "vault"
  /\ reqs' = [reqs EXCEPT !.vault = @ + 1]
  /\ IF VaultRaises(r)
     THEN CycleRaises
     ELSE /\ cur' = Merge(cur, [vault_count |-> VaultResult(r, data)])
          /\ pc' = "characters"
          /\ UNCHANGED <<data, caller, result, flowVars>>
  /\ accessToken' = IF r.kind = "status_other" THEN None ELSE accessToken
  /\ UNCHANGED <<now, entry, refreshToken, tokenExpiresAt, tokenData, tokenResp, restarts,
                 upstreamOK, storedExpiry, manifestVars, flowVars>>

\* line 134, for the response r
VaultStep(r) ==
  /\ pc = "vault"
  /\ reqs' = [reqs EXCEPT !.vault = @ + 1]
  /\ IF VaultRaises(r)
     THEN CycleRaises
     ELSE /\ cur' = Merge(cur, [vault_count |-> VaultResult(r, data)])
          /\ pc' = "characters"
          /\ UNCHANGED <<data, caller, result, flowVars>>
  /\ UNCHANGED <<now, entry, tokenVars, tokenResp, restarts, upstreamOK, storedExpiry,
                 manifestVars, flowVars>>

\* lines 295-297: without a membership id no request is sent
VaultSkipped ==
  /\ pc = "vault"
  /\ cur' = Merge(cur, [vault_count |-> None])
  /\ pc' = "characters"
  /\ UNCHANGED <<now, entry, tokenVars, tokenResp, restarts, upstreamOK, storedExpiry,
                 data, caller, result, reqs, manifestVars, flowVars>>

VaultResponses == FetchResponses(VaultPayloads, { p \in VaultPayloads : DecodeVault(p) # None })

FetchVault ==
  /\ IF Get(entry, "membership_id", None) = None
     THEN VaultSkipped
     ELSE \E r \in VaultResponses : VaultStep(r)
  /\ UNCHANGED <<seen, flowVars>>

\* line 140: the returned dict becomes self.data
Publish(snapshot) ==
  /\ data' = snapshot
  /\ cur' = EmptyDict
  /\ result' = "published"
  /\ pc' = "idle"
  /\ caller' = "cycle"

\* line 135, for the response r
CharactersStep(r) ==
  /\ pc = "characters"
  /\ reqs' = [reqs EXCEPT !.characters = @ + 1]
  /\ IF CharactersRaises(r)
     THEN CycleRaises
     ELSE Publish(Merge(cur, [characters |-> CharactersResult(r, data)]))
  /\ UNCHANGED <<now, entry, tokenVars, tokenResp, restarts, upstreamOK, storedExpiry,
                 manifestVars, flowVars>>

\* lines 343-345: without a membership id no request is sent
CharactersSkipped ==
  /\ pc = "characters"
  /\ Publish(Merge(cur, [characters |-> NoDict]))
  /\ UNCHANGED <<now, entry, tokenVars, tokenResp, restarts, upstreamOK, storedExpiry,
                 reqs, manifestVars, flowVars>>

CharacterResponses == FetchResponses(CharacterPayloads, CharacterPayloads \ {EmptyDict})

FetchCharacters ==
  /\ IF Get(entry, "membership_id", None) = None
     THEN CharactersSkipped
     ELSE \E r \in CharacterResponses : CharactersStep(r)
  /\ UNCHANGED <<seen, flowVars>>

\* ------------------------------------------------------ ManifestCache (manifest.py)
DefinitionTypes == {"DestinyMilestoneDefinition", "DestinyActivityDefinition"}

\* a hash id as the callers pass it: an int (activityHash, classHash) or a str
\* (a key of the milestones object), each with its decimal digits
HashIds == { [type |-> t, digits |-> d] : t \in {"int", "str"}, d \in 1..MaxHash }

\* line 45: str(hash_id), the decimal digits whatever the type
Str(h) == h.digits

\* a display name, and f"Unknown ({hash_id})"
Name(n) == [kind |-> "name", text |-> n]
Placeholder(h) == [kind |-> "unknown", id |-> Str(h)]
NoName == [kind |-> "none"]

\* the definitions the endpoint may return: with a name, without a name,
\* without displayProperties
Definitions ==
  { [displayProperties |-> [name |-> Name("Vault of Glass")]],
    [displayProperties |-> EmptyDict],
    EmptyDict }

\* "status": a non-200 status; "client_error": aiohttp.ClientError;
\* "undecodable": response.json() raises ValueError; "ok": 200 and a JSON object
LookupResponses ==
  { [kind |-> "ok", payload |-> p] : p \in {EmptyDict} \cup { [Response |-> d] : d \in Definitions } }
  \cup { [kind |-> k, payload |-> EmptyDict] : k \in {"status", "client_error", "undecodable"} }

\* lines 23-31: the cache a new ManifestCache starts with
EmptyCache == [t \in DefinitionTypes |-> EmptyDict]
NoLookups == [t \in DefinitionTypes |-> [d \in 1..MaxHash |-> 0]]
IdleCall == [state |-> "idle", type |-> "none", hash |-> [type |-> "none", digits |-> 0],
             name |-> NoName, resp |-> NoResponse]

\* the coroutines that may be inside get_definition at the same time, none called yet
Callers == 1..MaxCallers
IdleCalls == [c \in Callers |-> IdleCall]

\* the cache is never consulted
CacheHitNever(c, t, hs) == FALSE

\* lines 48-50: the definition is in the cache
CacheHit(c, t, hs) == t \in DOMAIN c /\ hs \in DOMAIN c[t]

\* only a definition that has a display name is stored
StoresNamedOnly(r) ==
  /\ r.kind = "ok" /\ "Response" \in DOMAIN r.payload
  /\ "displayProperties" \in DOMAIN r.payload["Response"]
  /\ "name" \in DOMAIN r.payload["Response"]["displayProperties"]

\* lines 63-83: the response carries a definition, which get_definition stores
Stores(r) == r.kind = "ok" /\ "Response" \in DOMAIN r.payload

\* a failed lookup is remembered as an empty definition
CacheAfterRemembersFailure(c, t, hs, r) ==
  [c EXCEPT ![t] = Merge(@, [k \in {hs} |-> IF Stores(r) THEN r.payload["Response"]
                                            ELSE EmptyDict])]

\* the cache holds the latest definition only
CacheAfterEvicts(c, t, hs, r) ==
  IF Stores(r)
  THEN [x \in DOMAIN c |-> IF x = t THEN [k \in {hs} |-> r.payload["Response"]]
                                    ELSE EmptyDict]
  ELSE c

\* lines 74-77: self._cache after the response r to the lookup of (t, hs)
CacheAfter(c, t, hs, r) ==
  IF Stores(r)
  THEN [c EXCEPT ![t] = Merge(@, [k \in {hs} |-> r.payload["Response"]])]
  ELSE c

\* lines 87-90 (93-97, 100-104): the name get_*_name makes of what get_definition
\* returned; None and the empty definition are both false
NameOf(definition, h) ==
  IF definition # EmptyDict /\ "displayProperties" \in DOMAIN definition
  THEN Get(definition["displayProperties"], "name", Placeholder(h))
  ELSE Placeholder(h)

\* lines 45-62: get_*_name(h) is called; a hit returns at once, a miss sends the request
ResolveStart(t, h) ==
  /\ pc \in {"milestones", "characters"}
  /\ call.state # "waiting"
  /\ IF CacheHit(cache, t, Str(h))
     THEN /\ call' = [state |-> "returned", type |-> t, hash |-> h,
                      name |-> NameOf(cache[t][Str(h)], h), resp |-> NoResponse]
          /\ UNCHANGED <<lookups, flowVars>>
     ELSE /\ lookups[t][Str(h)] < MaxLookups
          /\ call' = [state |-> "waiting", type |-> t, hash |-> h,
                      name |-> NoName, resp |-> NoResponse]
          /\ lookups' = [lookups EXCEPT ![t][Str(h)] = @ + 1]
  /\ UNCHANGED <<cache, resolved, calls, coordinatorVars, flowVars>>

\* lines 63-83 and the caller's lines 87-90: the response to the lookup arrives
ResolveResponse(r) ==
  /\ call.state = "waiting"
  /\ IF r.kind = "undecodable"
     THEN \* the ValueError of response.json() leaves get_definition
          /\ call' = [call EXCEPT !.state = "raised", !.resp = r]
          /\ UNCHANGED <<cache, resolved, flowVars>>
     ELSE LET definition == IF Stores(r) THEN r.payload["Response"] ELSE EmptyDict
              name == NameOf(definition, call.hash)
          IN  /\ cache' = CacheAfter(cache, call.type, Str(call.hash), r)
              /\ call' = [call EXCEPT !.state = "returned", !.name = name, !.resp = r]
              /\ resolved' = IF Stores(r)
                             THEN [resolved EXCEPT ![call.type] =
                                     Merge(@, [k \in {Str(call.hash)} |-> name])]
                             ELSE resolved
  /\ UNCHANGED <<lookups, calls, coordinatorVars, flowVars>>

\* ------------------------------------------- OAuth2FlowHandler (config_flow.py)
\* callback.py line 10
CALLBACK_PATH == "/api/destiny2/callback"

\* self.flow_id of the flows the host starts, one after another
FlowIds == <<"flow-a", "flow-b", "flow-c">>

\* the authorization codes the authorize endpoint redirects with
AuthorizationCodes == {"code-1"}

\* a query parameter of the callback request: <<>> when the query lacks it,
\* <<s>> when the query gives it as s
QueryCodes == {<<>>, <<"">>} \cup { <<c>> : c \in AuthorizationCodes }
QueryStates == {<<>>, <<"">>} \cup { <<FlowIds[i]>> : i \in 1..MaxFlows }

\* callback.py line 33: `not code`, for None and for the empty string
Missing(q) == q = <<>> \/ q = <<"">>

\* no flow in progress, no entry created, no callback answered
NoFlow ==
  /\ flowId = 0
  /\ flowStep = "none"
  /\ flowCode = <<>>
  /\ flowRedirect = <<>>
  /\ flowTokenData = EmptyDict
  /\ exchange = "none"
  /\ flowResult = "none"
  /\ entries = {}
  /\ callbackStatus = None
  /\ via = "frontend"

\* the status the callback view answers with when the step it resumed returns
\* (lines 47-50) or raises (lines 51-57)
Answered(status) == IF via = "callback" THEN status ELSE callbackStatus

\* what the user submits in the form: the source of the redirect URL and the
\* URL that source gives ("" when the host has none, or the field is left empty)
RedirectSources == {"external", "internal", "custom"}
UserInputs ==
  { [redirect_source |-> s, url |-> u]
    : s \in RedirectSources, u \in {"", "https://ha.example", "https://ha.example/"} }

\* str.rstrip("/")
RECURSIVE RStripSlash(_)
RStripSlash(s) ==
  IF Len(s) > 0 /\ SubSeq(s, Len(s), Len(s)) = "/"
  THEN RStripSlash(SubSeq(s, 1, Len(s) - 1))
  ELSE s

\* lines 66-82: base_url
BaseUrl(input) ==
  IF input.redirect_source = "custom" THEN RStripSlash(input.url) ELSE input.url

\* the host starts a flow: a handler is constructed (lines 46-52) and
\* async_step_user(None) shows the form (lines 132-144)
FlowInit ==
  /\ flowStep = "none"
  /\ flowId < MaxFlows
  /\ flowId' = flowId + 1
  /\ flowStep' = "user"
  /\ flowCode' = <<>>
  /\ flowRedirect' = <<>>
  /\ flowTokenData' = EmptyDict
  /\ exchange' = "none"
  /\ flowResult' = "form"
  /\ via' = "frontend"
  /\ UNCHANGED <<entries, callbackStatus, coordinatorVars, manifestVars>>

\* lines 60-130: the form is submitted
StepUser(input) ==
  /\ flowStep = "user"
  /\ IF BaseUrl(input) = ""
     THEN \* lines 85-104: the form is shown again with its errors
          /\ flowResult' = "form"
          /\ UNCHANGED <<flowStep, flowRedirect>>
     ELSE \* lines 107-130: the browser is sent to the authorize endpoint
          /\ flowRedirect' = <<BaseUrl(input) \o CALLBACK_PATH>>
          /\ flowStep' = "auth"
          /\ flowResult' = "external"
  /\ via' = "frontend"
  /\ UNCHANGED <<flowId, flowCode, flowTokenData, exchange, entries, callbackStatus,
                 coordinatorVars, manifestVars>>

\* lines 146-159: async_step_auth; user_input is <<>> for None, <<d>> for a dict d
StepAuth(user_input) ==
  IF user_input # <<>> /\ "code" \in DOMAIN user_input[1]
  THEN /\ flowCode' = <<user_input[1]["code"]>>
       /\ flowStep' = "token"
       /\ flowResult' = "external_done"
  ELSE /\ flowStep' = "none"
       /\ flowResult' = "missing_code"
       /\ UNCHANGED flowCode

\* the frontend resumes the external step without a code
ConfigureAuth(user_input) ==
  /\ flowStep = "auth"
  /\ StepAuth(user_input)
  /\ via' = "frontend"
  /\ UNCHANGED <<flowId, flowRedirect, flowTokenData, exchange, entries, callbackStatus,
                 coordinatorVars, manifestVars>>

\* lines 161-183: async_step_token sends the authorization_code exchange
StartExchange(who) ==
  /\ flowStep' = "exchange_wait"
  /\ exchange' = "sent"
  /\ via' = who
  /\ UNCHANGED <<flowId, flowCode, flowRedirect, flowTokenData, flowResult, entries,
                 coordinatorVars, manifestVars>>

\* the frontend goes on to the token step once the external step is done
StepToken ==
  /\ flowStep = "token"
  /\ StartExchange("frontend")
  /\ UNCHANGED callbackStatus

\* callback.py lines 20-57: Destiny2CallbackView.get; requests are handled
\* while no step of the flow is running
CallbackGet(code, state) ==
  /\ flowStep \in {"none", "user", "auth", "token"}
  /\ IF Missing(code) \/ Missing(state)
     THEN \* lines 33-38
          /\ callbackStatus' = 400
          /\ UNCHANGED <<flowId, flowStep, flowCode, flowRedirect, flowTokenData, exchange,
                         flowResult, entries, via, coordinatorVars, manifestVars>>
     ELSE IF flowStep \in {"none", "user"} \/ state[1] # FlowIds[flowId]
     THEN \* lines 51-57: async_configure raises, for a flow that is not in
          \* progress or a step whose form the input does not fit
          /\ callbackStatus' = 500
          /\ UNCHANGED <<flowId, flowStep, flowCode, flowRedirect, flowTokenData, exchange,
                         flowResult, entries, via, coordinatorVars, manifestVars>>
     ELSE IF flowStep = "auth"
     THEN \* lines 42-50: the flow is resumed with the code
          /\ StepAuth(<<[code |-> code[1]]>>)
          /\ callbackStatus' = 200
          /\ via' = "callback"
          /\ UNCHANGED <<flowId, flowRedirect, flowTokenData, exchange, entries,
                         coordinatorVars, manifestVars>>
     ELSE \* the callback is requested again: async_configure runs the token step
          /\ StartExchange("callback")
          /\ UNCHANGED callbackStatus

\* what the token endpoint answers the exchange with; "status": a non-200
\* status, "client_error": aiohttp.ClientError, "undecodable": a 200 whose
\* body response.json() raises on
IssuedTokenPayload ==
  [access_token |-> LinkedToken, refresh_token |-> LinkedToken, expires_in |-> 600,
   membership_id |-> 4611]

\* the payload in full, and the payload with one of its keys left out
FlowTokenPayloads ==
  {IssuedTokenPayload} \cup
  { [k \in DOMAIN IssuedTokenPayload \ {x} |-> IssuedTokenPayload[k]]
    : x \in DOMAIN IssuedTokenPayload }

ExchangeResponses ==
  { [kind |-> "status"], [kind |-> "client_error"], [kind |-> "undecodable"] }
    \cup { [kind |-> "ok", json |-> p] : p \in FlowTokenPayloads }

\* the flow ends with an abort (async_abort)
Abort(reason) ==
  /\ flowStep' = "none"
  /\ flowResult' = reason
  /\ callbackStatus' = Answered(200)

\* the step raises: the flow stays at the step it was resumed at
StepRaises ==
  /\ flowStep' = "token"
  /\ flowResult' = "raised"
  /\ callbackStatus' = Answered(500)

\* the exchange is taken for a success whatever its status
ExchangeStepAnyStatus(r) ==
  /\ flowStep = "exchange_wait"
  /\ exchange' = IF r.kind \in {"ok", "undecodable"} THEN "200" ELSE r.kind
  /\ IF r.kind = "ok"
     THEN flowTokenData' = r.json /\ flowStep' = "membership_wait"
                                  /\ UNCHANGED <<flowResult, callbackStatus>>
     ELSE flowTokenData' = EmptyDict /\ flowStep' = "membership_wait"
                                     /\ UNCHANGED <<flowResult, callbackStatus>>
  /\ UNCHANGED <<flowId, flowCode, flowRedirect, entries, via, coordinatorVars, manifestVars>>

\* lines 177-205: the answer to the exchange; after a 200 the memberships are
\* requested
ExchangeStep(r) ==
  /\ flowStep = "exchange_wait"
  /\ exchange' = IF r.kind \in {"ok", "undecodable"} THEN "200" ELSE r.kind
  /\ CASE r.kind = "status" -> Abort("token_exchange_failed") /\ UNCHANGED flowTokenData
       [] r.kind = "client_error" -> Abort("connection_error") /\ UNCHANGED flowTokenData
       [] r.kind = "undecodable" -> StepRaises /\ UNCHANGED flowTokenData
       [] r.kind = "ok" -> /\ flowTokenData' = r.json
                           /\ flowStep' = "membership_wait"
                           /\ UNCHANGED <<flowResult, callbackStatus>>
  /\ UNCHANGED <<flowId, flowCode, flowRedirect, entries, via, coordinatorVars, manifestVars>>

ExchangeResponse == flowStep = "exchange_wait" /\ \E r \in ExchangeResponses : ExchangeStep(r)

\* const.py lines 36-46
MembershipTypeName(t) ==
  CASE t = 0 -> "None" [] t = 1 -> "Xbox" [] t = 2 -> "PlayStation" [] t = 3 -> "Steam"
    [] t = 4 -> "Blizzard" [] t = 5 -> "Stadia" [] t = 6 -> "Epic" [] t = 10 -> "Demon"
    [] t = 254 -> "BungieNext" [] OTHER -> "Unknown"

\* the memberships GetMembershipsForCurrentUser lists
SteamMembership ==
  [membershipId |-> 4611, membershipType |-> 3, displayName |-> "Guardian",
   bungieGlobalDisplayName |-> "Guardian", bungieGlobalDisplayNameCode |-> 1234]
ConsoleMembership ==
  [membershipId |-> 4612, membershipType |-> 2, displayName |-> "Warlock"]

MembershipBodies ==
  { EmptyDict,
    [Response |-> EmptyDict],
    [Response |-> [destinyMemberships |-> <<SteamMembership, ConsoleMembership>>]],
    [Response |-> [destinyMemberships |-> <<SteamMembership, ConsoleMembership>>,
                   primaryMembershipId |-> 4612,
                   bungieNetUser |-> [firstAccess |-> "2014-09-09"]]],
    [Response |-> [destinyMemberships |-> <<SteamMembership>>,
                   primaryMembershipId |-> 9999,
                   bungieNetUser |-> EmptyDict]] }

MembershipResponses ==
  { [kind |-> "status"], [kind |-> "client_error"], [kind |-> "undecodable"] }
    \cup { [kind |-> "ok", json |-> b] : b \in MembershipBodies }

\* lines 192-197: the profile before the memberships are read; first_access is
\* <<>> for None
UnknownProfile ==
  [membership_id |-> None, membership_type |-> -1, bungie_name |-> "Unknown",
   bungie_name_code |-> 0, display_name |-> "Unknown", first_access |-> <<>>]

\* lines 222-226 and 233-237: the profile fields read from a membership
FromMembership(m, first_access) ==
  LET display_name == Get(m, "displayName", "Unknown")
  IN  [membership_id |-> Get(m, "membershipId", None),
       membership_type |-> Get(m, "membershipType", None),
       bungie_name |-> Get(m, "bungieGlobalDisplayName", display_name),
       bungie_name_code |-> Get(m, "bungieGlobalDisplayNameCode", 0),
       display_name |-> display_name,
       first_access |-> first_access]

\* lines 206-241: the profile the answer to the memberships request gives
Profile(r, token_data) ==
  IF r.kind = "status"
  THEN [UnknownProfile EXCEPT !.membership_id = Get(token_data, "membership_id", None)]
  ELSE IF "Response" \notin DOMAIN r.json THEN UnknownProfile
  ELSE LET resp == r.json["Response"]
           memberships == Get(resp, "destinyMemberships", <<>>)
           primary_id == Get(resp, "primaryMembershipId", None)
           bungie_user == Get(resp, "bungieNetUser", EmptyDict)
           first_access == IF "firstAccess" \in DOMAIN bungie_user
                           THEN <<bungie_user["firstAccess"]>> ELSE <<>>
           primaries == { i \in 1..Len(memberships) :
                            /\ primary_id # None
                            /\ Get(memberships[i], "membershipId", None) = primary_id }
       IN  IF primaries # {}
           THEN FromMembership(
                  memberships[CHOOSE i \in primaries : \A j \in primaries : i <= j],
                  first_access)
           ELSE IF memberships # <<>>
           THEN FromMembership(memberships[1], first_access)
           ELSE [UnknownProfile EXCEPT !.first_access = first_access]

\* lines 247-264: data; bungie_name is the name with its code, code 0 standing
\* for the name on its own
EntryData(token_data, profile) ==
  [api_key |-> "key", client_id |-> "id", client_secret |-> "secret",
   access_token |-> Get(token_data, "access_token", None),
   refresh_token |-> Get(token_data, "refresh_token", None),
   expires_in |-> Get(token_data, "expires_in", DefaultExpiresIn),
   membership_id |-> profile.membership_id,
   membership_type |-> profile.membership_type,
   membership_type_name |-> MembershipTypeName(profile.membership_type),
   bungie_name |-> [name |-> profile.bungie_name, code |-> profile.bungie_name_code],
   display_name |-> profile.display_name,
   first_access |-> profile.first_access]

\* line 267: the unique id, <<>> standing for "destiny2_unknown"
UniqueId(profile) ==
  IF profile.membership_id = None THEN <<>> ELSE <<profile.membership_id>>

\* lines 205-270: the answer to the memberships request, and the entry
MembershipStep(r) ==
  /\ flowStep = "membership_wait"
  /\ CASE r.kind = "client_error" -> Abort("connection_error") /\ UNCHANGED entries
       [] r.kind = "undecodable" -> StepRaises /\ UNCHANGED entries
       [] OTHER ->
            LET profile == Profile(r, flowTokenData)
            IN  IF \E e \in entries : e.unique_id = UniqueId(profile)
                THEN \* line 268
                     Abort("already_configured") /\ UNCHANGED entries
                ELSE \* line 270
                     /\ entries' = entries \cup
                          { [unique_id |-> UniqueId(profile),
                             data |-> EntryData(flowTokenData, profile)] }
                     /\ flowStep' = "none"
                     /\ flowResult' = "create_entry"
                     /\ callbackStatus' = Answered(200)
  /\ UNCHANGED <<flowId, flowCode, flowRedirect, flowTokenData, exchange, via,
                 coordinatorVars, manifestVars>>

MembershipResponse ==
  flowStep = "membership_wait" /\ \E r \in MembershipResponses : MembershipStep(r)

SubmitForm == flowStep = "user" /\ \E input \in UserInputs : StepUser(input)

ResumeWithoutCode == \E user_input \in {<<>>, <<EmptyDict>>} : ConfigureAuth(user_input)

CallbackRequest == \E code \in QueryCodes, state \in QueryStates : CallbackGet(code, state)

FlowNext ==
  \/ FlowInit
  \/ SubmitForm
  \/ ResumeWithoutCode
  \/ CallbackRequest
  \/ StepToken
  \/ ExchangeResponse
  \/ MembershipResponse

\* ------------------------------------------------ async_setup_entry / reload
\* a coordinator is constructed from the stored entry at the current instant
Construct ==
  /\ accessToken' = Get(entry, "access_token", None)
  /\ refreshToken' = Get(entry, "refresh_token", None)
  /\ tokenExpiresAt' = ConstructExpiresAt(entry, now)
  /\ tokenData' = EmptyDict
  /\ data' = NoDict
  /\ cur' = EmptyDict
  /\ pc' = "setup"
  /\ caller' = "setup"
  /\ reqs' = NoReqs
  /\ tokenResp' = "none"
  /\ result' = "none"
  /\ seen' = NoSeen
  /\ cache' = EmptyCache
  /\ call' = IdleCall
  /\ calls' = IdleCalls
  /\ lookups' = NoLookups
  /\ resolved' = EmptyCache
  /\ UNCHANGED <<now, entry, upstreamOK, storedExpiry, flowVars>>

\* the entry's setup is tried again after it failed
SetupRetry ==
  /\ pc = "down"
  /\ Construct
  /\ UNCHANGED <<restarts, flowVars>>

\* the host restarts (or the entry is reloaded) at any point of a cycle
Restart ==
  /\ pc \notin {"down", "setup"}
  /\ restarts < MaxRestarts
  /\ restarts' = restarts + 1
  /\ Construct

\* time passes: between cycles, and while the token exchange is awaited
Tick ==
  /\ pc \in {"idle", "down", "token_wait"}
  /\ now < StartInstant + MaxTicks * TickStep
  /\ now' = now + TickStep
  /\ UNCHANGED <<pc, caller, entry, tokenVars, data, cur, reqs, tokenResp, result, restarts,
                 upstreamOK, storedExpiry,
                 seen, manifestVars, flowVars>>

\* ---------------------------------------------------------------- specification
Init ==
  /\ now = StartInstant
  /\ entry \in InitialEntries
  /\ accessToken = Get(entry, "access_token", None)
  /\ refreshToken = Get(entry, "refresh_token", None)
  /\ tokenExpiresAt = ConstructExpiresAt(entry, now)
  /\ storedExpiry = now + entry["expires_in"]
  /\ tokenData = EmptyDict
  /\ data = NoDict
  /\ cur = EmptyDict
  /\ pc = "setup"
  /\ caller = "setup"
  /\ reqs = NoReqs
  /\ tokenResp = "none"
  /\ result = "none"
  /\ restarts = 0
  /\ upstreamOK = FALSE
  /\ seen = NoSeen
  /\ cache = EmptyCache
  /\ call = IdleCall
  /\ calls = IdleCalls
  /\ lookups = NoLookups
  /\ resolved = EmptyCache
  /\ NoFlow

Next ==
  \/ TokenCheck
  \/ TokenResponse
  \/ TokenPersist
  \/ StartCycle
  \/ ComputeResets
  \/ FetchMilestones
  \/ FetchVault
  \/ FetchCharacters
  \/ SetupRetry
  \/ Restart
  \/ Tick

Spec == Init /\ [][Next]_vars

\* ------------------------------------------- the cycle under a recovering upstream
\* from some point on the upstream answers every request with a well-formed 200
UpstreamRecovers ==
  /\ ~upstreamOK
  /\ upstreamOK' = TRUE
  /\ UNCHANGED <<now, pc, caller, entry, tokenVars, data, cur, reqs, tokenResp, result,
                 restarts, storedExpiry,
                 seen, manifestVars, flowVars>>

LiveNext ==
  \/ TokenCheck
  \/ TokenResponse
  \/ TokenPersist
  \/ StartCycle
  \/ ComputeResets
  \/ FetchMilestones
  \/ FetchVault
  \/ FetchCharacters
  \/ SetupRetry
  \/ Tick
  \/ UpstreamRecovers

\* the scheduler keeps starting cycles and every awaited step of a cycle completes
Fairness ==
  /\ WF_vars(StartCycle)
  /\ WF_vars(TokenCheck)
  /\ WF_vars(TokenResponse)
  /\ WF_vars(TokenPersist)
  /\ WF_vars(ComputeResets)
  /\ WF_vars(FetchMilestones)
  /\ WF_vars(FetchVault)
  /\ WF_vars(FetchCharacters)

SpecLive == Init /\ [][LiveNext]_vars /\ Fairness

\* ------------------------------------------- the reset computations on their own
TimesOfDay ==
  {0, ResetHour * Hour - 1, ResetHour * Hour, ResetHour * Hour + 1, Day - 1}

ResetInstants == { d * Day + s : d \in 0..MaxDay, s \in TimesOfDay }

\* a cycle whose token check has returned, at any of the instants
InitReset ==
  /\ now \in ResetInstants
  /\ entry \in InitialEntries
  /\ accessToken = Get(entry, "access_token", None)
  /\ refreshToken = Get(entry, "refresh_token", None)
  /\ tokenExpiresAt = ConstructExpiresAt(entry, now)
  /\ storedExpiry = now + entry["expires_in"]
  /\ tokenData = EmptyDict
  /\ data = NoDict
  /\ cur = EmptyDict
  /\ pc = "resets"
  /\ caller = "cycle"
  /\ reqs = NoReqs
  /\ tokenResp = "not_needed"
  /\ result = "running"
  /\ restarts = 0
  /\ upstreamOK = FALSE
  /\ seen = NoSeen
  /\ cache = EmptyCache
  /\ call = IdleCall
  /\ calls = IdleCalls
  /\ lookups = NoLookups
  /\ resolved = EmptyCache
  /\ NoFlow

ResetNext == ComputeResets

SpecReset == InitReset /\ [][ResetNext]_vars

\* ------------------------------------------- the cycle with its responses observed
\* the fetches as in Next, each recording the response it received
ObservedFetchMilestones ==
  \E r \in MilestoneResponses :
    MilestonesStep(r) /\ seen' = [seen EXCEPT !.milestones = r]

ObservedFetchVault ==
  IF Get(entry, "membership_id", None) = None
  THEN VaultSkipped /\ UNCHANGED <<seen, flowVars>>
  ELSE \E r \in VaultResponses :
         VaultStep(r) /\ seen' = [seen EXCEPT !.vault = r]

ObservedFetchCharacters ==
  IF Get(entry, "membership_id", None) = None
  THEN CharactersSkipped /\ UNCHANGED <<seen, flowVars>>
  ELSE \E r \in CharacterResponses :
         CharactersStep(r) /\ seen' = [seen EXCEPT !.characters = r]

FetchNext ==
  \/ TokenCheck
  \/ TokenResponse
  \/ TokenPersist
  \/ StartCycle
  \/ ComputeResets
  \/ ObservedFetchMilestones
  \/ ObservedFetchVault
  \/ ObservedFetchCharacters
  \/ SetupRetry

SpecFetch == Init /\ [][FetchNext]_vars

\* --------------------------------- the cycle with its earlier snapshots remembered
\* the characters fetch as in FetchNext, recording also what the snapshot that
\* the cycle replaces held
RememberedFetchCharacters ==
  IF Get(entry, "membership_id", None) = None
  THEN CharactersSkipped /\ seen' = SeenAfterCharacters(seen, NoResponse, data, TRUE)
  ELSE \E r \in CharacterResponses :
         /\ CharactersStep(r)
         /\ seen' = SeenAfterCharacters(seen, r, data, result' = "published")

HistoryNext ==
  \/ TokenCheck
  \/ TokenResponse
  \/ TokenPersist
  \/ StartCycle
  \/ ComputeResets
  \/ ObservedFetchMilestones
  \/ ObservedFetchVault
  \/ RememberedFetchCharacters
  \/ SetupRetry

SpecHistory == Init /\ [][HistoryNext]_vars

\* ------------------------------------------------- the manifest cache on its own
\* a cycle that has reached _fetch_milestones, its manifest cache as constructed
InitManifest ==
  /\ now = StartInstant
  /\ entry \in InitialEntries
  /\ accessToken = Get(entry, "access_token", None)
  /\ refreshToken = Get(entry, "refresh_token", None)
  /\ tokenExpiresAt = ConstructExpiresAt(entry, now)
  /\ storedExpiry = now + entry["expires_in"]
  /\ tokenData = EmptyDict
  /\ data = NoDict
  /\ cur = [weekly_reset |-> NextWeeklyReset(now),
            daily_reset |-> NextDailyReset(now),
            guardian |-> Guardian(entry)]
  /\ pc = "milestones"
  /\ caller = "cycle"
  /\ reqs = NoReqs
  /\ tokenResp = "not_needed"
  /\ result = "running"
  /\ restarts = 0
  /\ upstreamOK = FALSE
  /\ seen = NoSeen
  /\ cache = EmptyCache
  /\ call = IdleCall
  /\ calls = IdleCalls
  /\ lookups = NoLookups
  /\ resolved = EmptyCache
  /\ NoFlow

\* the decoding of a response asks for a name
Resolve == \E t \in DefinitionTypes, h \in HashIds : ResolveStart(t, h)

\* the definition endpoint answers the lookup
LookupAnswered == \E r \in LookupResponses : ResolveResponse(r)

ManifestNext ==
  \/ Resolve
  \/ LookupAnswered

SpecManifest == InitManifest /\ [][ManifestNext]_vars

\* --------------------------------------- concurrent calls of the manifest cache
\* the definitions the endpoint may return for a key: each carries its hash and
\* is of the requested type; its name may differ from one response to the next
\* (a redacted definition is named "Classified"), and may be missing
DefinitionsOf(t, hs) ==
  { [hash |-> hs, definition |-> t, displayProperties |-> [name |-> Name(<<t, hs, title>>)]]
    : title \in {"Classified", "Vault of Glass"} }
  \cup { [hash |-> hs, definition |-> t] }

LookupResponsesOf(t, hs) ==
  { [kind |-> "ok", payload |-> p]
    : p \in {EmptyDict} \cup { [Response |-> d] : d \in DefinitionsOf(t, hs) } }
  \cup { [kind |-> k, payload |-> EmptyDict] : k \in {"status", "client_error", "undecodable"} }

\* lines 45-62, in the coroutine c, which makes one call: the cache is consulted
\* and, on a miss, the request is sent; the coroutine is suspended until the
\* response arrives
ConcurrentStart(c, t, h) ==
  /\ pc \in {"milestones", "characters"}
  /\ calls[c].state = "idle"
  /\ IF CacheHit(cache, t, Str(h))
     THEN /\ calls' = [calls EXCEPT ![c] =
                         [state |-> "returned", type |-> t, hash |-> h,
                          name |-> NameOf(cache[t][Str(h)], h), resp |-> NoResponse]]
          /\ UNCHANGED <<lookups, flowVars>>
     ELSE /\ lookups[t][Str(h)] < MaxLookups
          /\ calls' = [calls EXCEPT ![c] =
                         [state |-> "waiting", type |-> t, hash |-> h,
                          name |-> NoName, resp |-> NoResponse]]
          /\ lookups' = [lookups EXCEPT ![t][Str(h)] = @ + 1]
  /\ UNCHANGED <<cache, call, resolved, coordinatorVars, flowVars>>

\* lines 63-83 and the caller's lines 87-90, in the coroutine c: it is resumed
\* with the response to its own request, with its own definition_type and hash_str
ConcurrentResponse(c, r) ==
  /\ calls[c].state = "waiting"
  /\ IF r.kind = "undecodable"
     THEN /\ calls' = [calls EXCEPT ![c].state = "raised", ![c].resp = r]
          /\ UNCHANGED <<cache, flowVars>>
     ELSE LET definition == IF Stores(r) THEN r.payload["Response"] ELSE EmptyDict
          IN  /\ cache' = CacheAfter(cache, calls[c].type, Str(calls[c].hash), r)
              /\ calls' = [calls EXCEPT ![c].state = "returned",
                                        ![c].name = NameOf(definition, calls[c].hash),
                                        ![c].resp = r]
  /\ UNCHANGED <<call, lookups, resolved, coordinatorVars, flowVars>>

ConcurrentResolve ==
  \E c \in Callers, t \in DefinitionTypes, h \in HashIds : ConcurrentStart(c, t, h)

ConcurrentAnswered ==
  \E c \in Callers :
    \E r \in LookupResponsesOf(calls[c].type, Str(calls[c].hash)) : ConcurrentResponse(c, r)

ConcurrentNext ==
  \/ ConcurrentResolve
  \/ ConcurrentAnswered

SpecConcurrent == InitManifest /\ [][ConcurrentNext]_vars

\* --------------------------------------------------- the decoding on its own
\* lists of activities of a milestone: one without an activityHash, and resolved names
ActivityLists ==
  { <<[activityHash |-> "Vault of Glass"], [activityHash |-> "Vault of Glass: Master"]>>,
    <<EmptyDict, [activityHash |-> "Grandmaster Nightfall"]>> }

EndDates == {SeasonEnd - 7 * Day, SeasonEnd}

\* every milestone_data: the activities and the endDate may be missing
AllMilestones ==
  { [name |-> n] : n \in MilestoneNames }
  \cup { [name |-> n, activities |-> a] : n \in MilestoneNames, a \in ActivityLists }
  \cup { [name |-> n, endDate |-> e] : n \in MilestoneNames, e \in EndDates }
  \cup { [name |-> n, activities |-> a, endDate |-> e]
         : n \in MilestoneNames, a \in ActivityLists, e \in EndDates }

AllMilestoneResponses ==
  { [kind |-> "ok", payload |-> [Response |-> ms]]
    : ms \in UNION { [1..n -> AllMilestones] : n \in 0..MaxMilestones } }

\* item lists of a character inventory: n postmaster items, then one of
\* another bucket and one without a bucketHash
InventoryItems(n) ==
  [i \in 1..n |-> [bucketHash |-> BUCKET_POSTMASTER]]
  \o <<[bucketHash |-> BUCKET_POSTMASTER + 1], EmptyDict>>

\* what the response may hold for a character: its char_info ...
CharacterInfos(id) ==
  { [character_id |-> id] }
  \cup { [character_id |-> id, dateLastPlayed |-> t] : t \in {PlayedEarlier, PlayedLater} }

\* ... and its inventory: without items, and with CRITICAL_COUNT - 1 and
\* CRITICAL_COUNT postmaster items
Inventories ==
  { EmptyDict,
    [items |-> InventoryItems(CRITICAL_COUNT - 1)],
    [items |-> InventoryItems(CRITICAL_COUNT)] }

CharacterLists ==
  UNION { { cs \in [1..n -> UNION { CharacterInfos(id) : id \in 1..n }] :
              \A i \in 1..n : cs[i]["character_id"] = i }
          : n \in 0..MaxCharacters }

InventoryDicts ==
  UNION { [ids -> Inventories] : ids \in SUBSET (1..MaxCharacters) }

AllCharacterResponses ==
  { [kind |-> "ok", payload |-> [Response |-> EmptyDict]],
    [kind |-> "ok", payload |-> [Response |-> [characters |-> EmptyDict]]] }
  \cup { [kind |-> "ok", payload |-> [Response |-> [characters |-> [data |-> cs]]]]
         : cs \in CharacterLists }
  \cup { [kind |-> "ok",
          payload |-> [Response |-> [characters |-> [data |-> cs],
                                     characterInventories |-> [data |-> inv]]]]
         : cs \in CharacterLists, inv \in InventoryDicts }

\* a cycle that has reached _fetch_milestones, or _fetch_characters after
\* fetches that gave nothing
InitDecode ==
  /\ now = StartInstant
  /\ entry \in InitialEntries
  /\ accessToken = Get(entry, "access_token", None)
  /\ refreshToken = Get(entry, "refresh_token", None)
  /\ tokenExpiresAt = ConstructExpiresAt(entry, now)
  /\ storedExpiry = now + entry["expires_in"]
  /\ tokenData = EmptyDict
  /\ data = NoDict
  /\ pc \in {"milestones", "characters"}
  /\ cur = LET resets == [weekly_reset |-> NextWeeklyReset(now),
                          daily_reset |-> NextDailyReset(now),
                          guardian |-> Guardian(entry)]
           IN  IF pc = "milestones" THEN resets
               ELSE Merge(Merge(resets, EmptyMilestones), [vault_count |-> None])
  /\ caller = "cycle"
  /\ reqs = IF pc = "milestones" THEN NoReqs
            ELSE [NoReqs EXCEPT !.milestones = 1, !.vault = 1]
  /\ tokenResp = "not_needed"
  /\ result = "running"
  /\ restarts = 0
  /\ upstreamOK = FALSE
  /\ seen = NoSeen
  /\ cache = EmptyCache
  /\ call = IdleCall
  /\ calls = IdleCalls
  /\ lookups = NoLookups
  /\ resolved = EmptyCache
  /\ NoFlow

DecodeMilestonesResponse ==
  /\ pc = "milestones"
  /\ \E r \in AllMilestoneResponses :
       MilestonesStep(r) /\ seen' = [seen EXCEPT !.milestones = r]

DecodeCharactersResponse ==
  /\ pc = "characters"
  /\ \E r \in AllCharacterResponses :
       CharactersStep(r) /\ seen' = [seen EXCEPT !.characters = r]

DecodeNext ==
  \/ DecodeMilestonesResponse
  \/ DecodeCharactersResponse

SpecDecode == InitDecode /\ [][DecodeNext]_vars

\* ========================================================== properties
\* a step in which the token check's guard is evaluated
TokenCheckStep ==
  \/ pc = "setup" /\ pc' \in {"token_wait", "token"}
  \/ pc = "token" /\ pc' \in {"token_wait", "resets"}

\* a step in which the token exchange's answer is handled
TokenResponseStep == pc = "token_wait" /\ pc' \notin {"token_wait", "setup"}

ResourceRequests == reqs.milestones + reqs.vault + reqs.characters

TokenKeys == {"access_token", "refresh_token", "expires_in"}

\* C1: a token check sends exactly one token exchange request when the stored
\* expiry is at most 5 minutes ahead of now, and none when it is further ahead;
\* handling the answer sends no further request.
C1_OneRequestInsideWindow ==
  [][ /\ (TokenCheckStep /\ tokenExpiresAt # None) =>
           reqs'.token = (IF tokenExpiresAt - now <= Lookahead THEN reqs.token + 1 ELSE reqs.token)
      /\ (pc \in {"token_wait", "token_persist"} /\ pc' # "setup") =>
           reqs'.token = (IF caller = "setup" /\ pc' = "token" THEN 0 ELSE reqs.token)
    ]_vars

\* C1 witness: a request is in flight for a token that expires 3 minutes from now
C1_Witness == pc = "token_wait" /\ reqs.token = 1 /\ tokenExpiresAt = now + 180

\* C2: when the token exchange is rejected (non-200) or fails in transport, the
\* tokens and expiry in memory, the persisted entry and the published snapshot
\* are unchanged, and the cycle ends with UpdateFailed.
C2_RejectedLeavesCredential ==
  [][ (TokenResponseStep /\ tokenResp' = "rejected") =>
        /\ accessToken' = accessToken
        /\ refreshToken' = refreshToken
        /\ tokenExpiresAt' = tokenExpiresAt
        /\ entry' = entry
        /\ data' = data
        /\ pc' \in {"idle", "down"}
        /\ (caller # "setup" => result' = "UpdateFailed")
    ]_vars

\* C2 witness: a scheduled cycle was aborted by a rejected exchange while a snapshot exists
C2_Witness ==
  /\ pc = "idle" /\ result = "UpdateFailed" /\ tokenResp = "rejected"
  /\ data # NoDict /\ reqs.token = 1

\* C3: resets are computed and resource requests sent only after the cycle's
\* token check has returned normally; after a failed token check the cycle has
\* computed nothing and requested nothing.
C3_TokenCheckFirst ==
  /\ (ResourceRequests > 0 \/ cur # EmptyDict) =>
        /\ tokenResp \in {"not_needed", "ok", "no_access_token"}
        /\ pc \notin {"setup", "token", "token_wait", "token_persist"}
  /\ (pc \in {"token", "token_wait", "token_persist"}) =>
        (ResourceRequests = 0 /\ cur = EmptyDict)

\* C3 witness: the token was refreshed, then the milestones request went out
C3_Witness ==
  pc = "vault" /\ reqs.token = 1 /\ reqs.milestones = 1 /\ tokenResp = "ok"

\* C4: the persisted credential always holds a complete token pair (the prior
\* one until the new one is stored), and resource requests carry the persisted
\* access token.
C4_PersistedPairUsable ==
  /\ Get(entry, "access_token", None) \in AllTokens
  /\ Get(entry, "refresh_token", None) \in AllTokens
  /\ pc \in {"milestones", "vault", "characters"} =>
        accessToken = Get(entry, "access_token", None)

\* C5: the data handed to async_update_entry keeps every key of the entry that
\* is not a token field with its value, and sets the token fields to the values
\* parsed from the response (with the code's defaults for missing keys).
C5_PersistKeepsOtherFields ==
  [][ (pc = "token_persist" /\ pc' \notin {"token_persist", "setup"}) =>
        /\ DOMAIN entry' = DOMAIN entry \cup TokenKeys
        /\ \A k \in DOMAIN entry \ TokenKeys : entry'[k] = entry[k]
        /\ entry'["access_token"] = Get(tokenData, "access_token", None)
        /\ entry'["refresh_token"] = Get(tokenData, "refresh_token", entry["refresh_token"])
        /\ entry'["expires_in"] = Get(tokenData, "expires_in", DefaultExpiresIn)
    ]_vars

\* C5 witness: a refresh was persisted with a new access token, the secret still there
C5_Witness ==
  /\ pc = "resets" /\ tokenResp = "ok" /\ reqs.token = 1
  /\ entry["access_token"] # LinkedToken /\ entry["client_secret"] = "secret"

\* C6: the expiry the token check uses is the instant fixed at issue, also after
\* the coordinator is constructed again from the persisted entry.
C6_ExpiryFixedAtIssue ==
  pc # "token_persist" => tokenExpiresAt = storedExpiry

\* C7: a 200 response without an access token, or one that cannot be decoded,
\* aborts the cycle and overwrites no access token.
C7_MalformedAborts ==
  [][ (TokenResponseStep /\ tokenResp' \in {"no_access_token", "undecodable"}) =>
        /\ pc' \in {"idle", "down"}
        /\ accessToken' = accessToken
        /\ entry' = entry
    ]_vars

\* C8: after a cycle whose refresh failed, the next cycle's token check sends the
\* exchange request again; and once the upstream answers 200 for good, a cycle
\* aborted by a failed refresh is followed by a published snapshot.
C8_NextCycleRetries ==
  /\ [][ (TokenCheckStep /\ caller = "cycle" /\ tokenResp \in {"rejected", "undecodable"}) =>
           (pc' = "token_wait" /\ reqs'.token = 1) ]_vars
  /\ (upstreamOK /\ pc = "idle" /\ result = "UpdateFailed"
        /\ tokenResp \in {"rejected", "undecodable"}) ~> (result = "published")

\* C8 witness: the upstream has recovered and the last cycle was aborted by a failed refresh
C8_Witness ==
  /\ upstreamOK /\ pc = "idle" /\ result = "UpdateFailed" /\ tokenResp = "rejected"
  /\ data # NoDict

\* C9: the weekly reset computed at T is the earliest Tuesday 17:00:00 UTC
\* strictly after T.
C9_WeeklyIsEarliestTuesday ==
  pc = "milestones" =>
    /\ cur["weekly_reset"] > now
    /\ cur["weekly_reset"] - now <= 7 * Day
    /\ Weekday(cur["weekly_reset"]) = Tuesday
    /\ cur["weekly_reset"] % Day = ResetHour * Hour

\* C10: the daily reset computed at T is the earliest 17:00:00 UTC strictly after T.
C10_DailyIsEarliest ==
  pc = "milestones" =>
    /\ cur["daily_reset"] > now
    /\ cur["daily_reset"] - now <= Day
    /\ cur["daily_reset"] % Day = ResetHour * Hour

\* C10 witness: computed at 17:00:00 sharp, the daily reset is one day later
C10_Witness ==
  /\ pc = "milestones" /\ now % Day = ResetHour * Hour
  /\ cur["daily_reset"] = now + Day

\* ------------------------------------------------ the fetches of a cycle
\* a step in which a fetch handles its response
MilestonesAnswered == pc = "milestones" /\ seen'.milestones.kind # "none"
VaultAnswered == pc = "vault" /\ seen'.vault.kind # "none"
CharactersAnswered == pc = "characters" /\ seen'.characters.kind # "none"

\* the step publishes a snapshot: data is the previous one, data' the new one
Published == pc = "characters" /\ result' = "published"

\* a cycle has just published its snapshot
JustPublished == pc = "idle" /\ result = "published"

\* the "data" object of a profile inventory payload, empty where it is missing
InventoryData(p) ==
  Get(Get(Get(p, "Response", EmptyDict), "profileInventory", EmptyDict), "data", EmptyDict)

\* the payload has the "data" object
HasInventoryData(p) ==
  /\ "Response" \in DOMAIN p
  /\ "profileInventory" \in DOMAIN p["Response"]
  /\ "data" \in DOMAIN p["Response"]["profileInventory"]

\* the number of items the payload lists: none when the list is missing, null or empty
ItemCount(p) ==
  LET d == InventoryData(p)
  IN  IF "items" \in DOMAIN d /\ d["items"].json = "array" THEN Len(d["items"].elems) ELSE 0

\* C11: when the vault request is answered 500 and a previous snapshot exists,
\* the snapshot the cycle publishes carries the previous snapshot's vault count
\* (the latest published one, whatever cycles were aborted since).
C11_Vault500KeepsPrevious ==
  [][ (Published /\ seen.vault.kind = "status500" /\ data # NoDict) =>
        data'["vault_count"] = data["vault_count"]
    ]_vars

\* C11 witness: a snapshot published after a 500 on the vault carries a count of 1,
\* which only the previous snapshot can have supplied
C11_Witness ==
  JustPublished /\ seen.vault.kind = "status500" /\ data["vault_count"] = 1

\* C12 as stated: a 200 with inventory data yields the number of items, 0 when
\* the list is empty and when the items member is absent; a non-200 status other
\* than 500 yields null.
C12_AbsentItemsCountZero ==
  [][ VaultAnswered =>
        LET r == seen'.vault
        IN  /\ (r.kind = "ok" /\ HasInventoryData(r.payload)) =>
                  (pc' = "characters" /\ cur'["vault_count"] = ItemCount(r.payload))
            /\ r.kind = "status_other" =>
                  (pc' = "characters" /\ cur'["vault_count"] = None)
    ]_vars

\* C12 amended: a 200 whose inventory data has the items member yields the number
\* of items, 0 when the member is an empty list or null; a 200 without the items
\* member (or without an enclosing object) yields null; a non-200 status other
\* than 500 yields null.
C12_CountOfPresentItems ==
  [][ VaultAnswered =>
        LET r == seen'.vault
            present == "items" \in DOMAIN InventoryData(r.payload)
        IN  /\ (r.kind = "ok" /\ present) =>
                  (pc' = "characters" /\ cur'["vault_count"] = ItemCount(r.payload))
            /\ (r.kind = "ok" /\ ~present) =>
                  (pc' = "characters" /\ cur'["vault_count"] = None)
            /\ r.kind = "status_other" =>
                  (pc' = "characters" /\ cur'["vault_count"] = None)
    ]_vars

\* C12 witness: a 200 whose inventory data has no items member gave a null count
C12_Witness ==
  /\ pc = "characters" /\ seen.vault.kind = "ok"
  /\ HasInventoryData(seen.vault.payload)
  /\ "items" \notin DOMAIN InventoryData(seen.vault.payload)
  /\ cur["vault_count"] = None

\* the character ids of a characters payload, and of a decoded roster
PayloadIds(p) ==
  LET cs == p["Response"]["characters"]["data"]
  IN  { cs[i]["character_id"] : i \in DOMAIN cs }

RosterIds(c) == { c["characters"][i]["character_id"] : i \in DOMAIN c["characters"] }

\* C13: the published characters value is the previous snapshot's on a 500 (when
\* one exists), null on any other non-200 status, and on a 200 the roster decoded
\* from the response alone.
C13_CharactersPolicy ==
  [][ (Published /\ CharactersAnswered) =>
        LET r == seen'.characters
        IN  /\ (r.kind = "status500" /\ data # NoDict) =>
                  data'["characters"] = data["characters"]
            /\ (r.kind = "status500" /\ data = NoDict) => data'["characters"] = NoDict
            /\ r.kind = "status_other" => data'["characters"] = NoDict
            /\ (r.kind = "ok" /\ "Response" \in DOMAIN r.payload) =>
                  /\ RosterIds(data'["characters"]) = PayloadIds(r.payload)
                  /\ data'["characters"]["count"] = Cardinality(PayloadIds(r.payload))
    ]_vars

\* C13 witness: a snapshot published after a 500 on the characters carries a roster
C13_Witness ==
  JustPublished /\ seen.characters.kind = "status500" /\ data["characters"] # NoDict

\* the rotators of a cycle whose milestones gave nothing
NoRotators == [raids |-> <<>>, dungeons |-> <<>>, other |-> <<>>]

NonOkStatus == {"status500", "status_other"}

\* the step ends the cycle with UpdateFailed, the snapshot as it was
Aborted == pc' \in {"idle", "down"} /\ result' = "UpdateFailed" /\ data' = data

\* C14: a non-200 status (500 included) on the milestones request gives empty
\* buckets and a null season end, whatever the previous snapshot holds, and the
\* cycle goes on: the vault and the characters are requested and the published
\* snapshot carries the empty buckets.
C14_MilestonesStatusDegrades ==
  [][ /\ (MilestonesAnswered /\ seen'.milestones.kind \in NonOkStatus) =>
           /\ pc' = "vault" /\ result' = result /\ data' = data
           /\ cur'["season_end"] = None
           /\ cur'["rotators"] = NoRotators
      /\ (Published /\ seen.milestones.kind \in NonOkStatus) =>
           /\ data'["season_end"] = None
           /\ data'["rotators"] = NoRotators
           /\ reqs.vault = 1
           /\ reqs'.characters = 1
    ]_vars

\* C14 witness: a snapshot was published in a cycle whose milestones request got a 500
C14_Witness ==
  /\ JustPublished /\ seen.milestones.kind = "status500"
  /\ data["rotators"] = NoRotators /\ data["season_end"] = None
  /\ reqs.vault = 1 /\ reqs.characters = 1

\* C15: a transport failure of the milestones request aborts the whole cycle:
\* UpdateFailed, no snapshot published.
C15_MilestonesTransportAborts ==
  [][ (MilestonesAnswered /\ seen'.milestones.kind = "client_error") => Aborted ]_vars

StatusOrTransport == {"status500", "status_other", "client_error"}

C17_TransportAborts ==
  [][ /\ (VaultAnswered /\ seen'.vault.kind = "client_error") => Aborted
      /\ (CharactersAnswered /\ seen'.characters.kind = "client_error") => Aborted
    ]_vars

\* C17 amended: a transport error (aiohttp.ClientError) on the vault or on the
\* characters request does not abort the cycle: the field is null in the snapshot
\* the cycle publishes.
C17_TransportGivesNull ==
  [][ /\ (VaultAnswered /\ seen'.vault.kind = "client_error") =>
           (pc' = "characters" /\ cur'["vault_count"] = None)
      /\ (Published /\ seen.vault.kind = "client_error") => data'["vault_count"] = None
      /\ (CharactersAnswered /\ seen'.characters.kind = "client_error") =>
           (result' = "published" /\ data'["characters"] = NoDict)
    ]_vars

\* C17 witness: a snapshot published after a transport error on the characters
\* carries no roster, and the vault count of the cycle's vault response
C17_Witness ==
  /\ JustPublished /\ seen.characters.kind = "client_error" /\ data["characters"] = NoDict
  /\ seen.vault.kind = "ok" /\ data["vault_count"] = 1

\* a 200 response whose payload cannot be decoded or lacks what the fetch reads
MalformedEnvelope(r) ==
  r.kind = "undecodable" \/ (r.kind = "ok" /\ "Response" \notin DOMAIN r.payload)

MalformedInventory(r) ==
  r.kind = "undecodable" \/ (r.kind = "ok" /\ "items" \notin DOMAIN InventoryData(r.payload))

\* C18: a malformed payload of a 200 response degrades its own field only
\* (milestones: empty buckets and null season end; vault: null; characters: null)
\* and never aborts the cycle.
C18_MalformedDegrades ==
  [][ /\ (MilestonesAnswered /\ MalformedEnvelope(seen'.milestones)) =>
           /\ pc' = "vault"
           /\ cur'["season_end"] = None /\ cur'["rotators"] = NoRotators
      /\ (VaultAnswered /\ MalformedInventory(seen'.vault)) =>
           (pc' = "characters" /\ cur'["vault_count"] = None)
      /\ (CharactersAnswered /\ MalformedEnvelope(seen'.characters)) =>
           (result' = "published" /\ data'["characters"] = NoDict)
    ]_vars

\* ------------------------------------------------ the manifest cache
\* a step in which get_*_name is called (a repeated hit that returns what the
\* last call returned changes nothing and is no step)
ResolveCalled == call.state # "waiting" /\ call' # call

\* a step in which the answer to a lookup is handled
LookupHandled == call.state = "waiting" /\ call'.state # "waiting"

\* the key of the call the step starts or ends
KeyType == call'.type
KeyHash == call'.hash.digits

\* the lookup got no definition: a non-200 status, a transport error, or a
\* payload without the Response envelope
FailedLookup(r) ==
  r.kind \in {"status", "client_error"} \/ (r.kind = "ok" /\ "Response" \notin DOMAIN r.payload)

\* the lookup got a definition that has a display name
NamedLookup(r) ==
  /\ r.kind = "ok" /\ "Response" \in DOMAIN r.payload
  /\ "displayProperties" \in DOMAIN r.payload["Response"]
  /\ "name" \in DOMAIN r.payload["Response"]["displayProperties"]

\* C19: once a key has been resolved successfully, every later resolve of the key
\* returns the name that resolve returned, sends no request and leaves the cache
\* as it is.
C19_ResolveIdempotent ==
  [][ (ResolveCalled /\ KeyHash \in DOMAIN resolved[KeyType]) =>
        /\ call'.state = "returned"
        /\ call'.name = resolved[KeyType][KeyHash]
        /\ lookups' = lookups
        /\ cache' = cache
    ]_vars

\* C19 witness: a call returned the name from the cache, one request sent for its key
C19_Witness ==
  /\ call.state = "returned" /\ call.resp = NoResponse
  /\ call.name = Name("Vault of Glass")
  /\ lookups[call.type][call.hash.digits] = 1

DecodedMilestones == pc = "vault" /\ "Response" \in DOMAIN seen.milestones.payload
ResponseMilestones == seen.milestones.payload["Response"]
Rotators == cur["rotators"]
BucketNames == {"raids", "dungeons", "other"}

\* what the keyword lists say of the names in the responses, read off by hand
NamesOfRaids == {"Vault of Glass", "Last Wish: Prophecy"}
NamesOfDungeons == {"The PROPHECY"}

\* the milestone lists an activity that has a hash, so that a name is resolved
HasNamedActivity(m) ==
  /\ "activities" \in DOMAIN m
  /\ \E j \in DOMAIN m["activities"] : "activityHash" \in DOMAIN m["activities"][j]

\* the bucket the decision rule gives a milestone, "none" for no bucket
RuleBucket(m) ==
  IF m["name"] \in NamesOfRaids THEN "raids"
  ELSE IF m["name"] \in NamesOfDungeons THEN "dungeons"
  ELSE IF HasNamedActivity(m) /\ "endDate" \in DOMAIN m THEN "other"
  ELSE "none"

\* the milestones the rule gives the bucket b, in the order of the response
RuleMembers(b) == SelectSeq(ResponseMilestones, LAMBDA m : RuleBucket(m) = b)

\* C22: a milestone goes to raids when its name, whatever its case, has a raid
\* keyword, else to dungeons when it has a dungeon keyword, else to other exactly
\* when it has an activity name and an end date, else to no bucket; the names of
\* its activities play no part in the keyword test.
C22_BucketRule ==
  DecodedMilestones =>
    \A b \in BucketNames :
      /\ Len(Rotators[b]) = Len(RuleMembers(b))
      /\ \A i \in DOMAIN Rotators[b] :
           /\ Rotators[b][i]["name"] = RuleMembers(b)[i]["name"]
           /\ Rotators[b][i]["end_date"] = Get(RuleMembers(b)[i], "endDate", None)

\* "Vault of Glass" is in raids, and a "Nightfall" whose activities are named
\* after the raid but which has no end date is in no bucket
C22_Witness ==
  /\ DecodedMilestones
  /\ Len(Rotators["raids"]) = 1 /\ Rotators["raids"][1]["name"] = "Vault of Glass"
  /\ Rotators["dungeons"] = <<>> /\ Rotators["other"] = <<>>
  /\ \E i \in DOMAIN ResponseMilestones :
       /\ ResponseMilestones[i]["name"] = "Nightfall"
       /\ HasNamedActivity(ResponseMilestones[i])

\* the resolved activity names of the responses that contain "Master"
NamesWithMaster == {"Vault of Glass: Master"}

\* some activity of the milestone has a name with "Master" in it
AnyActivityMaster(m) ==
  /\ "activities" \in DOMAIN m
  /\ \E j \in DOMAIN m["activities"] :
       /\ "activityHash" \in DOMAIN m["activities"][j]
       /\ m["activities"][j]["activityHash"] \in NamesWithMaster

\* C23: has_master of a milestone's entry is true exactly when one of its
\* activities, the first or a later one, has a resolved name containing "Master"
\* as written; this is so in each of the buckets.
C23_HasMaster ==
  DecodedMilestones =>
    \A b \in BucketNames :
      /\ Len(Rotators[b]) = Len(RuleMembers(b))
      /\ \A i \in DOMAIN Rotators[b] :
           Rotators[b][i]["has_master"] = AnyActivityMaster(RuleMembers(b)[i])

\* a raid whose second activity is the Master one is flagged, another bucket's
\* entry whose activity is a "Grandmaster" one is not
C23_Witness ==
  /\ DecodedMilestones
  /\ Len(Rotators["raids"]) = 1
  /\ Rotators["raids"][1]["has_master"]
  /\ Rotators["raids"][1]["activity"] = <<"Vault of Glass">>
  /\ \E b \in {"dungeons", "other"} :
       /\ Len(Rotators[b]) = 1
       /\ ~Rotators[b][1]["has_master"]
       /\ Rotators[b][1]["activity"] = <<"Grandmaster Nightfall">>

\* the end dates the milestones of the response carry
ResponseEndDates ==
  { ResponseMilestones[i]["endDate"] :
      i \in { j \in DOMAIN ResponseMilestones : "endDate" \in DOMAIN ResponseMilestones[j] } }

\* C24: after a decoded milestones response season_end is the greatest end date
\* of all its milestones, bucketed or not, and None exactly when no milestone has
\* an end date.
C24_SeasonEndIsLatest ==
  DecodedMilestones =>
    IF ResponseEndDates = {}
    THEN cur["season_end"] = None
    ELSE /\ cur["season_end"] \in ResponseEndDates
         /\ \A e \in ResponseEndDates : e <= cur["season_end"]

\* the latest end date is that of a milestone that is in no bucket
C24_Witness ==
  /\ DecodedMilestones
  /\ cur["season_end"] = SeasonEnd
  /\ Len(Rotators["raids"]) = 1 /\ Rotators["raids"][1]["end_date"] = SeasonEnd - 7 * Day
  /\ Rotators["dungeons"] = <<>> /\ Rotators["other"] = <<>>
  /\ Len(ResponseMilestones) = 2

\* how often the sequence q holds the value x
Occurrences(q, x) == Cardinality({ i \in DOMAIN q : q[i] = x })

\* C29: a milestone of the response has at most one entry in the three buckets
\* together (as many as the response lists it), and a milestone whose name has
\* a raid keyword and a dungeon keyword is in raids only.
C29_OneBucketOnce ==
  DecodedMilestones =>
    \A i \in DOMAIN ResponseMilestones :
      LET m == ResponseMilestones[i]
          e == [name |-> m["name"],
                activity |-> ActivityName(m),
                has_master |-> AnyActivityMaster(m),
                end_date |-> Get(m, "endDate", None)]
      IN  /\ Occurrences(Rotators["raids"], e) + Occurrences(Rotators["dungeons"], e)
               + Occurrences(Rotators["other"], e)
             <= Occurrences(ResponseMilestones, m)
          /\ m["name"] = "Last Wish: Prophecy" =>
               /\ Occurrences(Rotators["raids"], e) = Occurrences(ResponseMilestones, m)
               /\ Occurrences(Rotators["dungeons"], e) = 0
               /\ Occurrences(Rotators["other"], e) = 0

\* a name with "last wish" and "prophecy" in it is in raids, beside a dungeon
C29_Witness ==
  /\ DecodedMilestones
  /\ Len(Rotators["raids"]) = 1 /\ Rotators["raids"][1]["name"] = "Last Wish: Prophecy"
  /\ Len(Rotators["dungeons"]) = 1 /\ Rotators["dungeons"][1]["name"] = "The PROPHECY"
  /\ Rotators["other"] = <<>>

\* the characters and the inventories of the response that was decoded, and the
\* roster made of them
DecodedCharacters ==
  /\ pc = "idle" /\ result = "published"
  /\ "Response" \in DOMAIN seen.characters.payload
ResponseCharacters ==
  Get(Get(seen.characters.payload["Response"], "characters", EmptyDict), "data", <<>>)
ResponseInventories ==
  Get(Get(seen.characters.payload["Response"], "characterInventories", EmptyDict),
      "data", EmptyDict)
Roster == data["characters"]["characters"]

\* the place of the character with this id in the response
PlaceInResponse(id) ==
  CHOOSE i \in DOMAIN ResponseCharacters : ResponseCharacters[i]["character_id"] = id

\* C25: the roster holds every character of the response once, each with its
\* last-played instant; a later-played character comes before an earlier-played
\* one, a character without an instant after all that have one, and characters
\* with the same instant (or both without) in the order of the response.
C25_RosterOrder ==
  DecodedCharacters =>
    /\ Len(Roster) = Len(ResponseCharacters)
    /\ \A i \in DOMAIN ResponseCharacters :
         \E k \in DOMAIN Roster :
           /\ Roster[k]["character_id"] = ResponseCharacters[i]["character_id"]
           /\ Roster[k]["last_played"] = Get(ResponseCharacters[i], "dateLastPlayed", None)
    /\ \A k, l \in DOMAIN Roster :
         k < l =>
           LET a == Roster[k]["last_played"]
               b == Roster[l]["last_played"]
           IN  /\ a = None => b = None
               /\ (a # None /\ b # None) => a >= b
               /\ a = b => PlaceInResponse(Roster[k]["character_id"])
                             < PlaceInResponse(Roster[l]["character_id"])

\* a character without an instant is first in the response and last in the roster
C25_Witness ==
  /\ DecodedCharacters
  /\ Len(Roster) = 2
  /\ "dateLastPlayed" \notin DOMAIN ResponseCharacters[1]
  /\ Roster[1]["character_id"] = 2 /\ Roster[1]["last_played"] = PlayedLater
  /\ Roster[2]["character_id"] = 1 /\ Roster[2]["last_played"] = None

\* the items of the character's inventory that are in the postmaster bucket
PostmasterItems(id) ==
  IF id \in DOMAIN ResponseInventories /\ "items" \in DOMAIN ResponseInventories[id]
  THEN LET items == ResponseInventories[id]["items"]
       IN  { i \in DOMAIN items :
               "bucketHash" \in DOMAIN items[i] /\ items[i]["bucketHash"] = BUCKET_POSTMASTER }
  ELSE {}

\* C26: a character's postmaster_count is the number of items of its inventory
\* whose bucketHash is the postmaster bucket, 0 without an inventory entry, and
\* postmaster_critical is true exactly when some character's count is 18 or more.
C26_PostmasterCount ==
  DecodedCharacters =>
    /\ \A k \in DOMAIN Roster :
         Roster[k]["postmaster_count"]
           = Cardinality(PostmasterItems(Roster[k]["character_id"]))
    /\ data["characters"]["postmaster_critical"]
         = (\E i \in DOMAIN ResponseCharacters :
              Cardinality(PostmasterItems(ResponseCharacters[i]["character_id"]))
                >= CRITICAL_COUNT)

\* one character has 18 postmaster items among others, one has no inventory entry
C26_Witness ==
  /\ DecodedCharacters
  /\ data["characters"]["postmaster_critical"]
  /\ \E k, l \in DOMAIN Roster :
       /\ Roster[k]["postmaster_count"] = CRITICAL_COUNT
       /\ Len(ResponseInventories[Roster[k]["character_id"]]["items"]) > CRITICAL_COUNT
       /\ Roster[l]["postmaster_count"] = 0
       /\ Roster[l]["character_id"] \notin DOMAIN ResponseInventories

\* the keys of a complete snapshot
SnapshotKeys ==
  {"weekly_reset", "daily_reset", "guardian", "season_end", "rotators", "vault_count",
   "characters"}

Complete(snapshot) == DOMAIN snapshot = SnapshotKeys

\* C27: the published snapshot is absent or complete; it changes only when a
\* cycle returns, to the snapshot that this cycle assembled (or, to absent, when
\* a new coordinator is constructed), and a cycle that ends with UpdateFailed
\* leaves it as it was.
C27_AtomicPublish ==
  [][ /\ data = NoDict \/ Complete(data)
      /\ data' = NoDict \/ Complete(data')
      /\ data' # data =>
           \/ /\ Published
              /\ \A k \in SnapshotKeys \ {"characters"} : data'[k] = cur[k]
           \/ pc' = "setup" /\ data' = NoDict
      /\ result' = "UpdateFailed" => data' = data ]_vars

\* a cycle was aborted by a fetch after an earlier cycle had published
C27_Witness ==
  /\ pc = "idle" /\ result = "UpdateFailed"
  /\ data # NoDict /\ Complete(data)
  /\ reqs.milestones = 1 /\ reqs.vault = 1 /\ reqs.characters = 1

\* C30: between the start of a cycle and its end no request is sent twice: at
\* most one token exchange, one milestones, one vault and one characters request.
C30_NoRetryInCycle ==
  /\ reqs.token <= 1
  /\ reqs.milestones <= 1
  /\ reqs.vault <= 1
  /\ reqs.characters <= 1

\* a cycle has sent each of the four requests once and has published
C30_Witness ==
  /\ JustPublished
  /\ reqs = [token |-> 1, milestones |-> 1, vault |-> 1, characters |-> 1]

\* the coroutine c has returned from its call in this step
Returns(c) == calls'[c] # calls[c] /\ calls'[c].state = "returned"

\* the names the definitions of the call's own key may carry, and its placeholder
OwnNames(k) ==
  { Name(<<k.type, Str(k.hash), title>>) : title \in {"Classified", "Vault of Glass"} }
  \cup { [kind |-> "unknown", id |-> Str(k.hash)] }

\* every call that returns, returns a name of its own key or its placeholder
ReturnsOwnName == [][\A c \in Callers : Returns(c) => calls'[c].name \in OwnNames(calls'[c])]_vars

\* every cached definition is the definition of the key it is stored under
CachedUnderOwnKey ==
  \A t \in DefinitionTypes : \A k \in DOMAIN cache[t] :
    cache[t][k]["hash"] = k /\ cache[t][k]["definition"] = t

\* no cached entry is removed or replaced by a different value
NoEntryLostOrReplaced ==
  [][\A t \in DefinitionTypes : \A k \in DOMAIN cache[t] :
       k \in DOMAIN cache'[t] /\ cache'[t][k] = cache[t][k]]_vars

\* C28: however concurrent resolve calls interleave at their requests, a
\* call that returns, returns a name of its own key or its placeholder, every
\* cached definition is stored under its own key, and no cached entry is
\* removed or replaced by a different value.
C28_ConcurrentResolveSafe ==
  [][ /\ \A c \in Callers : Returns(c) => calls'[c].name \in OwnNames(calls'[c])
      /\ \A t \in DefinitionTypes : \A k \in DOMAIN cache'[t] :
           cache'[t][k]["hash"] = k /\ cache'[t][k]["definition"] = t
      /\ \A t \in DefinitionTypes : \A k \in DOMAIN cache[t] :
           k \in DOMAIN cache'[t] /\ cache'[t][k] = cache[t][k] ]_vars

\* the cycle is past its token check: at the reset computations or at a fetch
PastTokenCheck == pc \in {"resets", "milestones", "vault", "characters"}

\* C31: the reset computations and the milestones, vault and characters fetches
\* leave the access token, the refresh token, the expiry and the persisted entry
\* as they were, whatever the response (a 401 or any other status included).
C31_FetchesLeaveCredential ==
  [][ PastTokenCheck =>
        /\ accessToken' = accessToken
        /\ refreshToken' = refreshToken
        /\ tokenExpiresAt' = tokenExpiresAt
        /\ entry' = entry ]_vars

\* the milestones and the vault request were both refused with a status other
\* than 200 and 500, and the cycle goes on with the credential it had
C31_Witness ==
  /\ pc = "characters"
  /\ seen.milestones.kind = "status_other"
  /\ seen.vault.kind = "status_other"
  /\ accessToken # None /\ accessToken = Get(entry, "access_token", None)

\* the cycle has computed its two resets at the instant now
ResetsComputed == pc = "milestones" /\ "weekly_reset" \in DOMAIN cur

\* C32: the weekly reset of a snapshot is strictly later than the instant it
\* was computed at, is a Tuesday at 17:00:00 UTC sharp, and is not earlier than
\* the daily reset of the same snapshot.
C32_WeeklyFutureTuesday ==
  ResetsComputed =>
    /\ cur["weekly_reset"] > now
    /\ cur["weekly_reset"] % (7 * Day) = Tuesday * Day + ResetHour * Hour
    /\ cur["weekly_reset"] >= cur["daily_reset"]

\* computed on a Tuesday at 17:00:00 sharp: the weekly reset is a week ahead,
\* the daily reset a day ahead
C32_Witness ==
  /\ ResetsComputed
  /\ now % (7 * Day) = Tuesday * Day + ResetHour * Hour
  /\ cur["weekly_reset"] = now + 7 * Day
  /\ cur["daily_reset"] = now + Day

\* the definition has no display name: no displayProperties, or none with a name
Nameless(definition) ==
  \/ "displayProperties" \notin DOMAIN definition
  \/ "name" \notin DOMAIN definition["displayProperties"]

\* the lookup got a definition that has no display name
NamelessLookup(r) ==
  /\ r.kind = "ok" /\ "Response" \in DOMAIN r.payload
  /\ Nameless(r.payload["Response"])

\* C33: a lookup that gets a definition without a display name stores the
\* definition and returns the placeholder Unknown (<id>); a later resolve of
\* that key returns the same placeholder, sends no request and leaves the cache.
C33_NamelessDefinitionCached ==
  [][ /\ (LookupHandled /\ NamelessLookup(call'.resp)) =>
           /\ call'.state = "returned"
           /\ call'.name = [kind |-> "unknown", id |-> KeyHash]
           /\ KeyHash \in DOMAIN cache'[KeyType]
           /\ cache'[KeyType][KeyHash] = call'.resp.payload["Response"]
      /\ (ResolveCalled /\ KeyHash \in DOMAIN cache[KeyType]
            /\ Nameless(cache[KeyType][KeyHash])) =>
           /\ call'.state = "returned"
           /\ call'.name = [kind |-> "unknown", id |-> KeyHash]
           /\ lookups' = lookups
           /\ cache' = cache
    ]_vars

\* a call was answered from the cache with the placeholder: the one request sent
\* for its key had brought a definition whose displayProperties have no name
C33_Witness ==
  /\ call.state = "returned" /\ call.resp = NoResponse
  /\ call.name = [kind |-> "unknown", id |-> call.hash.digits]
  /\ lookups[call.type][call.hash.digits] = 1
  /\ cache[call.type][call.hash.digits] = [displayProperties |-> EmptyDict]

\* the activities the milestone lists, none when it has no "activities" member
ListedActivities(m) == IF "activities" \in DOMAIN m THEN m["activities"] ELSE <<>>

\* the places of the listed activities that carry an activityHash
HashedPlaces(m) ==
  { j \in DOMAIN ListedActivities(m) : "activityHash" \in DOMAIN ListedActivities(m)[j] }

\* C34 as stated: the activity name of a milestone's entry is the resolved name
\* of the first activity the milestone lists, and null exactly when it lists none.
C34_FirstListedActivity ==
  DecodedMilestones =>
    \A b \in BucketNames : \A i \in DOMAIN Rotators[b] :
      LET m == RuleMembers(b)[i]
          activity == Rotators[b][i]["activity"]
      IN  /\ (activity = <<>>) = (ListedActivities(m) = <<>>)
          /\ activity # <<>> =>
               /\ 1 \in HashedPlaces(m)
               /\ activity = <<ListedActivities(m)[1]["activityHash"]>>

\* C34, amended: the activity name of a milestone's entry is the resolved name
\* of the first listed activity that has an activityHash, and null exactly when
\* no listed activity has one.
C34_FirstHashedActivity ==
  DecodedMilestones =>
    \A b \in BucketNames : \A i \in DOMAIN Rotators[b] :
      LET m == RuleMembers(b)[i]
          activity == Rotators[b][i]["activity"]
      IN  /\ (activity = <<>>) = (HashedPlaces(m) = {})
          /\ activity # <<>> =>
               LET first == CHOOSE j \in HashedPlaces(m) : \A k \in HashedPlaces(m) : j <= k
               IN  activity = <<ListedActivities(m)[first]["activityHash"]>>

\* one entry is named after the first of two hashed activities, another after
\* the second listed activity because the first listed has no activityHash
C34_Witness ==
  /\ DecodedMilestones
  /\ \E b \in BucketNames : \E i \in DOMAIN Rotators[b] :
       /\ Rotators[b][i]["activity"] = <<"Grandmaster Nightfall">>
       /\ 1 \notin HashedPlaces(RuleMembers(b)[i])
  /\ \E b \in BucketNames : \E i \in DOMAIN Rotators[b] :
       /\ Rotators[b][i]["activity"] = <<"Vault of Glass">>
       /\ Len(ListedActivities(RuleMembers(b)[i])) = 2

\* C35: after a 500 the vault count and the characters of the new snapshot are
\* those of the latest published snapshot and of no other: None when that
\* snapshot holds None, whatever the snapshots before it held, and None when
\* nothing has been published yet.
C35_FallbackReadsLatestOnly ==
  [][ /\ (VaultAnswered /\ seen'.vault.kind = "status500") =>
           cur'["vault_count"] = IF data = NoDict THEN None ELSE data["vault_count"]
      /\ (Published /\ seen.vault.kind = "status500") =>
           data'["vault_count"] = IF data = NoDict THEN None ELSE data["vault_count"]
      /\ (Published /\ seen'.characters.kind = "status500") =>
           data'["characters"] = IF data = NoDict THEN NoDict ELSE data["characters"]
    ]_vars

\* both requests of the cycle were answered 500: the snapshot it replaced held
\* neither a vault count nor characters, a snapshot before that one had held
\* both, and the new snapshot holds neither
C35_Witness ==
  /\ JustPublished
  /\ seen.vault.kind = "status500" /\ seen.characters.kind = "status500"
  /\ seen.replaced.published /\ ~seen.replaced.vault /\ ~seen.replaced.characters
  /\ seen.older.vault /\ seen.older.characters
  /\ data["vault_count"] = None /\ data["characters"] = NoDict

\* the token check at the head of the first refresh runs, the check of the setup
\* having refreshed with a 200
SecondStartupCheck ==
  /\ pc = "token" /\ caller = "first" /\ pc' \in {"resets", "token_wait"}
  /\ tokenResp \in {"ok", "no_access_token"}

\* C36: setup runs the token check and the first refresh runs it again; when
\* the first run got a 200 whose lifetime is more than 5 minutes, the second run
\* sends no token request, so that startup sends one at most.
C36_StartupRefreshesOnce ==
  [][ (SecondStartupCheck /\ entry["expires_in"] > Lookahead) =>
        /\ pc' = "resets"
        /\ reqs'.token = 0
        /\ tokenResp' = "not_needed" ]_vars

\* the first refresh is past its token check without a request; the check of
\* the setup had refreshed and stored a lifetime of 10 minutes
C36_Witness ==
  /\ pc = "resets" /\ caller = "first"
  /\ reqs.token = 0 /\ tokenResp = "not_needed"
  /\ entry["access_token"] \in Tokens
  /\ entry["expires_in"] = 600

\* ------------------------------------------------ the config flow on its own
SpecFlow == Init /\ [][FlowNext]_vars

\* the reasons the flow aborts with short of an exchange that returned 200
EarlyAborts == {"missing_code", "token_exchange_failed", "connection_error"}

\* a step ends the flow in progress with one of these aborts
AbortsEarly == flowStep # "none" /\ flowStep' = "none" /\ flowResult' \in EarlyAborts

\* the callback view answers a request that lacks the code or the state
CallbackRefuses == callbackStatus' = 400 /\ callbackStatus # 400

\* C37: a config entry is created only by a flow that received an authorization
\* code and whose authorization_code exchange returned 200; a callback request
\* without code or state, an auth step without a code, a non-200 exchange and a
\* transport error end the request or the flow and create no entry.
C37_EntryOnlyAfterCodeAndExchange ==
  [][ /\ entries' # entries =>
           /\ flowCode # <<>> /\ ~Missing(flowCode)
           /\ exchange = "200" /\ exchange' = "200"
           /\ flowResult' = "create_entry"
      /\ AbortsEarly => entries' = entries
      /\ exchange' \in {"status", "client_error"} =>
           flowStep' = "none" /\ entries' = entries
      /\ (flowStep = "auth" /\ flowStep' = "none") =>
           flowResult' = "missing_code" /\ flowCode' = flowCode /\ entries' = entries
      /\ CallbackRefuses =>
           UNCHANGED <<flowId, flowStep, flowCode, exchange, flowResult, entries>> ]_vars

\* a first flow created an entry; the second one, resumed by the callback with
\* a code, was ended by an exchange that did not return 200
C37_Witness ==
  /\ flowId = 2 /\ flowStep = "none"
  /\ entries # {}
  /\ flowCode # <<>>
  /\ exchange = "status" /\ flowResult = "token_exchange_failed"

====
